---------------------------- MODULE Spec2Model ----------------------------
(***************************************************************************)
(* react-native-ios-intents: the cross-process invocation protocol.        *)
(*                                                                         *)
(* Two processes share one key-value store (UserDefaults of an App Group)  *)
(* and a payload-less broadcast signal (a Darwin notification):            *)
(*   - the generated App Intent (perform(), emitted by                     *)
(*     generateIntentStruct) publishes a command and polls for a reply;    *)
(*   - the application: the native module IosIntents.swift scans the store *)
(*     and hands the command to the JavaScript SiriShortcutsManager, whose *)
(*     listeners answer through the respond callback.                      *)
(* Every store access of either process is one step, so that the steps of  *)
(* an intent, of the scan running on the signal thread and of the scan     *)
(* running inside setShortcutCallback interleave freely.                   *)
(* The build-time generator is modelled by its String Catalog merge        *)
(* (mergeStringCatalog), run any number of times over one catalog file.    *)
(***************************************************************************)
EXTENDS Integers, Sequences, FiniteSets, TLC

VARIABLES
    store,      \* the shared UserDefaults: key -> value (Nil when absent)
    intent,     \* per invocation: the position and locals of perform()
    lag,        \* scheduling delay added to every Task.sleep, in ticks
    app,        \* the application process: "down" or "up" (module initialised)
    signals,    \* Darwin notifications posted to the application, not yet delivered
    dups,       \* duplicate or foreign notifications injected so far
    scan,       \* per thread: the position and locals of handleDarwinNotification
    callback,   \* IosIntents._shortcutCallback is set
    mainQueue,  \* blocks of DispatchQueue.main.async, oldest first
    js,         \* SiriShortcutsManager: listeners, nativeCallbackRegistered, fan-out
    hist,       \* history: what was delivered, called, written (observation only)
    catalog,    \* the String Catalog file of the generator, with its last run
    cli         \* the generator's text functions: the last call, its input and output

vars ==
    <<store, intent, lag, app, signals, dups, scan, callback, mainQueue, js, hist, catalog,
      cli>>

---------------------------------------------------------------------------
(* Values of the store.  UserDefaults holds property-list values; the type  *)
(* of a value decides what string(forKey:), double(forKey:) and             *)
(* object(forKey:) as? NSNumber return.                                     *)

Nil == [t |-> "nil", v |-> "nil"]
Str(s) == [t |-> "string", v |-> s]
Num(n) == [t |-> "number", v |-> n]
Bool(b) == [t |-> "bool", v |-> b]
DateV(n) == [t |-> "date", v |-> n]

\* Invocations.  The nonce of invocation i is UUID().uuidString: unique.
Intents == {1, 2}
Nonces == <<"N1", "N2">>
NonceOf(i) == Nonces[i]

\* The two threads of the application that run handleDarwinNotification: the
\* main thread (Darwin notification callback) and the JavaScript thread
\* (setShortcutCallback, called through the Nitro module).
Threads == {"main", "js"}

\* Listener functions the application may register.
Listeners == {"L1", "L2"}

---------------------------------------------------------------------------
(* The shortcut configuration the Swift source was generated from: the      *)
(* example configuration, addTask reduced to its date parameter and the     *)
(* message of startTimer to a text without interpolation.                   *)

Config ==
    << [identifier |-> "startTimer",
        parameters |-> << >>,
        stateDialogs |-> << [stateKey |-> "timerRunning", showWhen |-> Bool(TRUE),
                             message |-> "Timer is already running. Start a new one?",
                             requiresConfirmation |-> TRUE] >>],
       [identifier |-> "stopTimer",
        parameters |-> << >>,
        stateDialogs |-> << [stateKey |-> "timerRunning", showWhen |-> Bool(FALSE),
                             message |-> "Timer is not running.",
                             requiresConfirmation |-> FALSE] >>],
       [identifier |-> "addTask",
        parameters |-> << [name |-> "dueDate", type |-> "date"] >>,
        stateDialogs |-> << >>],
       [identifier |-> "testParams",
        parameters |-> << [name |-> "text", type |-> "string"],
                          [name |-> "count", type |-> "number"],
                          [name |-> "enabled", type |-> "boolean"],
                          [name |-> "when", type |-> "date"] >>,
        stateDialogs |-> << >>] >>

\* The shortcuts of the example application, and the shortcut that declares
\* one parameter of every type.
Shortcuts == {1, 2, 3}
TestParams == 4
ParamNames == {"dueDate", "text", "count", "enabled", "when"}
StateKeys == {"timerRunning"}
\* The keys the application publishes: updateAppState({ timerRunning, taskName }).
PublishedKeys == StateKeys \cup {"taskName"}

\* Keys of the shared store: <<namespace, name>> stands for the key text
\* "IosIntents<namespace>_<name>" (or "appState_<name>").
KPending == <<"PendingCommand", "">>
KNonce == <<"CommandNonce", "">>
KTimestamp == <<"CommandTimestamp", "">>
KConfirmed == <<"UserConfirmed", "">>
KParam(p) == <<"Param", p>>
KParamType(p) == <<"ParamType", p>>
KResponse(n) == <<"Response", n>>
KAppState(k) == <<"appState", k>>

Keys ==
    {KPending, KNonce, KTimestamp, KConfirmed}
        \cup {KParam(p) : p \in ParamNames} \cup {KParamType(p) : p \in ParamNames}
        \cup {KResponse(NonceOf(i)) : i \in Intents}
        \cup {KAppState(k) : k \in PublishedKeys}

\* Timing of the poll loop, in ticks of 0.1 s.
Timeout == 50
PollInterval == 1
\* The delay the protocol specification adds to every sleep (a suspended
\* intent process), so that an intent polls a few times only.
CoarseLag == 49

ErrorMessage == "Failed to communicate with app"
TimeoutMessage == "Done"

---------------------------------------------------------------------------
(* UserDefaults accessors.                                                  *)

\* Text of a number, as "\(numValue)" and string(forKey:) give it.
NumText(n) == ToString(n)

\* Number read from a text, as double(forKey:) does: 0 when it is no number.
TextNum(s) == CASE s = "0" -> 0 [] s = "1" -> 1 [] OTHER -> 0

\* Variant of StringForKey: an empty string reads as nil.
StringForKeyNonEmpty(s, k) ==
    CASE s[k].t = "string" /\ s[k].v # "" -> s[k]
      [] s[k].t = "number" -> Str(NumText(s[k].v))
      [] s[k].t = "bool" -> Str(IF s[k].v THEN "1" ELSE "0")
      [] OTHER -> Nil

\* defaults.string(forKey:): a string as it is, a number as its text, else nil.
StringForKey(s, k) ==
    CASE s[k].t = "string" -> s[k]
      [] s[k].t = "number" -> Str(NumText(s[k].v))
      [] s[k].t = "bool" -> Str(IF s[k].v THEN "1" ELSE "0")
      [] OTHER -> Nil

\* defaults.double(forKey:): 0 when the key is absent.
DoubleForKey(s, k) ==
    CASE s[k].t = "number" -> s[k].v
      [] s[k].t = "bool" -> (IF s[k].v THEN 1 ELSE 0)
      [] s[k].t = "string" -> TextNum(s[k].v)
      [] OTHER -> 0

\* defaults.object(forKey:) as? NSNumber: numbers and booleans only.
NumberForKey(s, k) == IF s[k].t \in {"number", "bool"} THEN s[k] ELSE Nil

SetKey(s, k, v) == [s EXCEPT ![k] = v]
RemoveKey(s, k) == [s EXCEPT ![k] = Nil]
PresentKeys(s) == {k \in Keys : s[k] # Nil}

---------------------------------------------------------------------------
(* The generated intent: perform().                                         *)

\* generateSwiftCondition: the guard of a state dialog.
SwiftCondition(s, d) ==
    LET k == KAppState(d.stateKey) IN
    CASE d.showWhen.t = "bool" -> DoubleForKey(s, k) = (IF d.showWhen.v THEN 1 ELSE 0)
      [] d.showWhen.t = "number" -> DoubleForKey(s, k) = d.showWhen.v
      [] d.showWhen.t = "string" -> StringForKey(s, k) = d.showWhen
      [] OTHER -> StringForKey(s, k) # Nil

\* hasConfirmationDialogs of generateIntentStruct.
HasConfirmationDialogs(sc) ==
    \E j \in DOMAIN Config[sc].stateDialogs : Config[sc].stateDialogs[j].requiresConfirmation

\* Values Siri can resolve for a parameter of invocation i.
ParamInputs(i, type) ==
    CASE type = "date" -> {DateV(10 * i)}
      [] type = "boolean" -> {Bool(TRUE), Bool(FALSE)}
      [] type = "number" -> {Num(i)}
      [] OTHER -> {Str(NonceOf(i))}

\* generateParameterWrites: the store writes of one parameter, in order.
ParameterWrites(p, val) ==
    IF val = Nil THEN << >>
    ELSE CASE p.type = "date" ->
                << <<KParam(p.name), Num(val.v)>>, <<KParamType(p.name), Str("date")>> >>
           [] p.type = "boolean" ->
                << <<KParam(p.name), val>>, <<KParamType(p.name), Str("boolean")>> >>
           [] OTHER -> << <<KParam(p.name), val>> >>

RECURSIVE AllParameterWrites(_, _, _)
AllParameterWrites(ps, vals, j) ==
    IF j > Len(ps) THEN << >>
    ELSE ParameterWrites(ps[j], vals[ps[j].name]) \o AllParameterWrites(ps, vals, j + 1)

\* Variant of PublishOps: the command keys are written before the parameters.
PublishOpsCommandFirst(i) ==
    LET me == intent[i]
        sc == me.sc IN
    << <<KPending, Str(Config[sc].identifier)>>,
       <<KNonce, Str(NonceOf(i))>>,
       <<KTimestamp, Num(i)>> >>
        \o (IF HasConfirmationDialogs(sc) THEN << <<KConfirmed, Bool(me.uc)>> >> ELSE << >>)
        \o AllParameterWrites(Config[sc].parameters, me.params, 1)

\* The writes that publish the command of invocation i, in program order.
PublishOps(i) ==
    LET me == intent[i]
        sc == me.sc IN
    AllParameterWrites(Config[sc].parameters, me.params, 1)
        \o << <<KPending, Str(Config[sc].identifier)>>,
              <<KNonce, Str(NonceOf(i))>>,
              <<KTimestamp, Num(i)>> >>
        \o (IF HasConfirmationDialogs(sc) THEN << <<KConfirmed, Bool(me.uc)>> >> ELSE << >>)

NoResult == [kind |-> "none", msg |-> Nil]

IdleIntent ==
    [pc |-> "idle", sc |-> 0, params |-> [p \in ParamNames |-> Nil], idx |-> 0,
     uc |-> FALSE, elapsed |-> 0, polls |-> 0, got |-> Nil, out |-> NoResult,
     opened |-> FALSE, shown |-> Nil, rejected |-> FALSE,
     asked |-> 0, confirms |-> 0, writes |-> 0, posted |-> FALSE]

\* Variant of StoreGuard: the failed guard does not return.
StoreGuardIgnored(me, sc, ok) ==
    [me EXCEPT !.pc = "request", !.sc = sc, !.idx = 1, !.opened = ok]

\* guard let defaults = UserDefaults(suiteName:) else { return errorMessage }
StoreGuard(me, sc, ok) ==
    IF ok THEN [me EXCEPT !.pc = "request", !.sc = sc, !.idx = 1, !.opened = TRUE]
    ELSE [me EXCEPT !.pc = "done", !.sc = sc,
                    !.out = [kind |-> "error", msg |-> Str(ErrorMessage)]]

\* perform() starts; the guard on UserDefaults(suiteName:).  Invocations are
\* numbered in the order they start.
IntentStart(i, sc, ok) ==
    /\ intent[i].pc = "idle"
    /\ \A j \in Intents : j < i => intent[j].pc # "idle"
    /\ intent' = [intent EXCEPT ![i] = StoreGuard(@, sc, ok)]
    /\ UNCHANGED <<store, lag, app, signals, dups, scan, callback, mainQueue, js, hist, catalog, cli>>

\* generateParameterRequests: requestValue for a parameter that has no value;
\* the user gives one, or cancels and perform() throws.
IntentRequest(i) ==
    LET me == intent[i]
        ps == Config[me.sc].parameters IN
    /\ me.pc = "request"
    /\ IF me.idx > Len(ps)
       THEN intent' = [intent EXCEPT ![i].pc = "dialogs", ![i].idx = 1]
       ELSE \/ \E v \in ParamInputs(i, ps[me.idx].type) :
                 intent' = [intent EXCEPT ![i].params[ps[me.idx].name] = v,
                                          ![i].idx = @ + 1, ![i].asked = @ + 1]
            \/ intent' = [intent EXCEPT ![i].pc = "done", ![i].asked = @ + 1,
                                        ![i].out = [kind |-> "thrown", msg |-> Nil]]
    /\ UNCHANGED <<store, lag, app, signals, dups, scan, callback, mainQueue, js, hist, catalog, cli>>

\* Variant of ConfirmationRejected: the error is swallowed (try?) and perform()
\* goes on to the next dialog.
ConfirmationSwallowed(me) ==
    [me EXCEPT !.idx = @ + 1, !.confirms = @ + 1, !.rejected = TRUE]

\* Variant of MessageShown: the message is shown without the return.
MessageShownContinues(me, d) ==
    [me EXCEPT !.idx = @ + 1, !.shown = Str(d.message)]

\* try await requestConfirmation(...) when the user rejects: it throws, and
\* perform() ends by the error.
ConfirmationRejected(me) ==
    [me EXCEPT !.pc = "done", !.confirms = @ + 1, !.rejected = TRUE,
               !.out = [kind |-> "thrown", msg |-> Nil]]

\* A message-only dialog whose condition holds: return .result(dialog: message).
MessageShown(me, d) ==
    [me EXCEPT !.pc = "done", !.shown = Str(d.message),
               !.out = [kind |-> "dialog", msg |-> Str(d.message)]]

\* generateStateDialogSwift: one state dialog, in declaration order.
IntentDialog(i) ==
    LET me == intent[i]
        ds == Config[me.sc].stateDialogs IN
    /\ me.pc = "dialogs"
    /\ IF me.idx > Len(ds)
       THEN intent' = [intent EXCEPT ![i].pc = "publish", ![i].idx = 1]
       ELSE LET d == ds[me.idx] IN
            IF ~SwiftCondition(store, d)
            THEN intent' = [intent EXCEPT ![i].idx = @ + 1]
            ELSE IF d.requiresConfirmation
                 THEN \/ intent' = [intent EXCEPT ![i].uc = TRUE, ![i].idx = @ + 1,
                                                  ![i].confirms = @ + 1]
                      \/ intent' = [intent EXCEPT ![i] = ConfirmationRejected(@)]
                 ELSE intent' = [intent EXCEPT ![i] = MessageShown(@, d)]
    /\ UNCHANGED <<store, lag, app, signals, dups, scan, callback, mainQueue, js, hist, catalog, cli>>

\* One defaults.set of the publication.
IntentPublish(i) ==
    LET me == intent[i]
        ops == PublishOps(i) IN
    /\ me.pc = "publish"
    /\ store' = SetKey(store, ops[me.idx][1], ops[me.idx][2])
    /\ intent' = [intent EXCEPT ![i].writes = @ + 1,
                                ![i].idx = @ + 1,
                                ![i].pc = IF me.idx = Len(ops) THEN "post" ELSE "publish"]
    /\ hist' = [hist EXCEPT !.writer[ops[me.idx][1]] = i]
    /\ UNCHANGED <<lag, app, signals, dups, scan, callback, mainQueue, js, catalog, cli>>

\* CFNotificationCenterPostNotification: reaches the application only if its
\* process runs and observes; startTime is taken.
IntentPost(i) ==
    /\ intent[i].pc = "post"
    /\ signals' = IF app = "up" THEN signals + 1 ELSE signals
    /\ intent' = [intent EXCEPT ![i].pc = "poll", ![i].posted = TRUE, ![i].elapsed = 0]
    /\ UNCHANGED <<store, lag, app, dups, scan, callback, mainQueue, js, hist, catalog, cli>>

\* Variant of LoopContinues: the bound of the loop is inclusive.
LoopContinuesInclusive(elapsed) == elapsed <= Timeout

\* while Date().timeIntervalSince(startTime) < timeout
LoopContinues(elapsed) == elapsed < Timeout

\* Variant of IntentPoll: an intent that gives up withdraws its command.
IntentPollWithdraws(i) ==
    LET me == intent[i]
        r == StringForKey(store, KResponse(NonceOf(i))) IN
    /\ me.pc = "poll"
    /\ intent' = [intent EXCEPT ![i] =
          IF ~LoopContinues(me.elapsed)
          THEN [@ EXCEPT !.pc = "done",
                         !.out = [kind |-> "timeout", msg |-> Str(TimeoutMessage)]]
          ELSE IF r # Nil
               THEN [@ EXCEPT !.pc = "remove", !.polls = @ + 1, !.got = r]
               ELSE [@ EXCEPT !.pc = "sleep", !.polls = @ + 1]]
    /\ store' = IF ~LoopContinues(me.elapsed) /\ store[KNonce] = Str(NonceOf(i))
                THEN RemoveKey(RemoveKey(store, KPending), KNonce)
                ELSE store
    /\ UNCHANGED <<lag, app, signals, dups, scan, callback, mainQueue, js, hist, catalog, cli>>

\* The loop condition and the read of the response key.
IntentPoll(i) ==
    LET me == intent[i]
        r == StringForKey(store, KResponse(NonceOf(i))) IN
    /\ me.pc = "poll"
    /\ intent' = [intent EXCEPT ![i] =
          IF ~LoopContinues(me.elapsed)
          THEN [@ EXCEPT !.pc = "done",
                         !.out = [kind |-> "timeout", msg |-> Str(TimeoutMessage)]]
          ELSE IF r # Nil
               THEN [@ EXCEPT !.pc = "remove", !.polls = @ + 1, !.got = r]
               ELSE [@ EXCEPT !.pc = "sleep", !.polls = @ + 1]]
    /\ UNCHANGED <<store, lag, app, signals, dups, scan, callback, mainQueue, js, hist, catalog, cli>>

\* defaults.removeObject(forKey: responseKey) and the return of the response.
IntentRemove(i) ==
    /\ intent[i].pc = "remove"
    /\ store' = RemoveKey(store, KResponse(NonceOf(i)))
    /\ intent' = [intent EXCEPT ![i].pc = "done",
                                ![i].out = [kind |-> "response", msg |-> intent[i].got]]
    /\ UNCHANGED <<lag, app, signals, dups, scan, callback, mainQueue, js, hist, catalog, cli>>

\* Task.sleep(pollInterval), plus the scheduling delay.
IntentSleep(i) ==
    /\ intent[i].pc = "sleep"
    /\ intent' = [intent EXCEPT ![i].pc = "poll", ![i].elapsed = @ + PollInterval + lag]
    /\ UNCHANGED <<store, lag, app, signals, dups, scan, callback, mainQueue, js, hist, catalog, cli>>

IntentStep(i) ==
    \/ IntentRequest(i)
    \/ IntentDialog(i)
    \/ IntentPublish(i)
    \/ IntentPost(i)
    \/ IntentPoll(i)
    \/ IntentRemove(i)
    \/ IntentSleep(i)

---------------------------------------------------------------------------
(* The application process: IosIntents.swift.                               *)

IdleScan ==
    [pc |-> "idle", cmd |-> Nil, nonce |-> Nil, uc |-> Nil, keys |-> {},
     todo |-> {}, cur |-> "", ptype |-> Nil, params |-> [p \in ParamNames |-> Nil],
     idx |-> 0]

\* The JavaScript thread is between two tasks: in no fan-out, in no native call.
JsIdle == ~js.fan.active /\ scan["js"].pc = "idle"

\* The process starts and the module is constructed: init() registers the
\* Darwin notification observer.
AppLaunch ==
    /\ app = "down"
    /\ app' = "up"
    /\ UNCHANGED <<store, intent, lag, signals, dups, scan, callback, mainQueue, js, hist, catalog, cli>>

\* A notification of the same name that no publication of a command stands
\* behind: a duplicate or late delivery, or a post by another process.
MaxDups == 1
DuplicateSignal ==
    /\ app = "up"
    /\ dups < MaxDups
    /\ dups' = dups + 1
    /\ signals' = signals + 1
    /\ UNCHANGED <<store, intent, lag, app, scan, callback, mainQueue, js, hist, catalog, cli>>

\* handleDarwinNotification is entered on thread t.
ScanBegin(t) == [IdleScan EXCEPT !.pc = "readCommand"]

\* The end of handleDarwinNotification on thread t.  On the JavaScript thread
\* the call returns into ensureNativeCallback, which sets the flag.
ScanEnd(t) ==
    /\ scan' = [scan EXCEPT ![t] = IdleScan]
    /\ js' = IF t = "js" THEN [js EXCEPT !.nativeCallbackRegistered = TRUE] ELSE js

\* The Darwin notification callback runs on the main thread.
SignalDeliver ==
    /\ app = "up"
    /\ signals > 0
    /\ scan["main"].pc = "idle"
    /\ signals' = signals - 1
    /\ scan' = [scan EXCEPT !["main"] = ScanBegin("main")]
    /\ UNCHANGED <<store, intent, lag, app, dups, callback, mainQueue, js, hist, catalog, cli>>

\* guard let pendingCommand = defaults.string(forKey: "IosIntentsPendingCommand")
ScanReadCommand(t) ==
    LET c == StringForKey(store, KPending) IN
    /\ scan[t].pc = "readCommand"
    /\ IF c = Nil
       THEN ScanEnd(t)
       ELSE /\ scan' = [scan EXCEPT ![t].pc = "readNonce", ![t].cmd = c]
            /\ UNCHANGED js
    /\ UNCHANGED <<store, intent, lag, app, signals, dups, callback, mainQueue, hist, catalog, cli>>

\* ..., let commandNonce = defaults.string(forKey: "IosIntentsCommandNonce")
ScanReadNonce(t) ==
    LET n == StringForKey(store, KNonce) IN
    /\ scan[t].pc = "readNonce"
    /\ IF n = Nil
       THEN ScanEnd(t)
       ELSE /\ scan' = [scan EXCEPT ![t].pc = "readConfirmed", ![t].nonce = n]
            /\ UNCHANGED js
    /\ UNCHANGED <<store, intent, lag, app, signals, dups, callback, mainQueue, hist, catalog, cli>>

\* NSNumber.boolValue
BoolValue(x) == IF x.t = "bool" THEN x ELSE Bool(x.v # 0)

\* defaults.object(forKey: "IosIntentsUserConfirmed") as? NSNumber
ScanReadConfirmed(t) ==
    LET u == NumberForKey(store, KConfirmed) IN
    /\ scan[t].pc = "readConfirmed"
    /\ scan' = [scan EXCEPT ![t].pc = "snapshot",
                            ![t].uc = IF u = Nil THEN Nil ELSE BoolValue(u)]
    /\ UNCHANGED <<store, intent, lag, app, signals, dups, callback, mainQueue, js, hist, catalog, cli>>

\* The keys of allKeys that handleDarwinNotification looks at: those with the
\* prefix IosIntentsParam_ or IosIntentsParamType_.
ParameterKeys(ks) == {k \in ks : k[1] \in {"Param", "ParamType"}}

\* let allKeys = defaults.dictionaryRepresentation().keys
ScanSnapshot(t) ==
    LET ks == ParameterKeys(PresentKeys(store))
        ps == {p \in ParamNames : KParam(p) \in ks} IN
    /\ scan[t].pc = "snapshot"
    /\ scan' = [scan EXCEPT ![t].keys = ks, ![t].todo = ps,
                            ![t].pc = IF ps = {} THEN "readCurrent" ELSE "readType"]
    /\ UNCHANGED <<store, intent, lag, app, signals, dups, callback, mainQueue, js, hist, catalog, cli>>

\* let paramType = defaults.string(forKey: typeKey), for one parameter key
ScanReadType(t) ==
    /\ scan[t].pc = "readType"
    /\ \E p \in scan[t].todo :
          scan' = [scan EXCEPT ![t].pc = "readValue", ![t].cur = p,
                               ![t].todo = @ \ {p},
                               ![t].ptype = StringForKey(store, KParamType(p))]
    /\ UNCHANGED <<store, intent, lag, app, signals, dups, callback, mainQueue, js, hist, catalog, cli>>

\* The value of a parameter key, decoded by its type marker.
DecodeParameter(s, k, ptype) ==
    IF ptype = Str("date") THEN DateV(DoubleForKey(s, k))
    ELSE IF ptype = Str("boolean") /\ NumberForKey(s, k) # Nil
         THEN BoolValue(NumberForKey(s, k))
    ELSE IF StringForKey(s, k) # Nil THEN StringForKey(s, k)
    ELSE IF NumberForKey(s, k) # Nil THEN Num(DoubleForKey(s, k))
    ELSE Nil

ScanReadValue(t) ==
    LET me == scan[t] IN
    /\ me.pc = "readValue"
    /\ scan' = [scan EXCEPT ![t].params[me.cur] =
                                DecodeParameter(store, KParam(me.cur), me.ptype),
                            ![t].cur = "", ![t].ptype = Nil,
                            ![t].pc = IF me.todo = {} THEN "readCurrent" ELSE "readType"]
    /\ UNCHANGED <<store, intent, lag, app, signals, dups, callback, mainQueue, js, hist, catalog, cli>>

\* The keys handleDarwinNotification removes first, in program order.
CommandKeys == <<KPending, KNonce, KTimestamp, KConfirmed>>

\* Whether the clear may start: the nonce stored now against the nonce read.
NonceMatches(current, commandNonce) == current = commandNonce

\* let currentNonce = defaults.string(forKey: "IosIntentsCommandNonce")
ScanReadCurrent(t) ==
    LET me == scan[t] IN
    /\ me.pc = "readCurrent"
    /\ scan' = [scan EXCEPT ![t].idx = 1,
                            ![t].todo = {},
                            ![t].pc = IF NonceMatches(StringForKey(store, KNonce), me.nonce)
                                      THEN "clear" ELSE "invoke"]
    /\ UNCHANGED <<store, intent, lag, app, signals, dups, callback, mainQueue, js, hist, catalog, cli>>

\* One defaults.removeObject of the clear: the four command keys, then the
\* parameter keys of the snapshot in the dictionary's order.
ScanClear(t) ==
    LET me == scan[t]
        left == me.keys \ me.todo IN
    /\ me.pc = "clear"
    /\ IF me.idx <= Len(CommandKeys)
       THEN /\ store' = RemoveKey(store, CommandKeys[me.idx])
            /\ scan' = [scan EXCEPT ![t].idx = @ + 1,
                                    ![t].pc = IF me.idx = Len(CommandKeys) /\ left = {}
                                              THEN "invoke" ELSE "clear"]
       ELSE \E k \in left :
              /\ store' = RemoveKey(store, k)
              /\ scan' = [scan EXCEPT ![t].todo = @ \cup {k},
                                      ![t].pc = IF left = {k} THEN "invoke" ELSE "clear"]
    /\ UNCHANGED <<intent, lag, app, signals, dups, callback, mainQueue, js, hist, catalog, cli>>

\* invokeShortcut: the conversion of one decoded value to the variant
\* (.first Bool, .second String, .third Double, .fourth Date).
Variant(x) ==
    CASE x.t = "bool" -> [case |-> "first", value |-> x]
      [] x.t = "string" -> [case |-> "second", value |-> x]
      [] x.t = "number" -> [case |-> "third", value |-> x]
      [] x.t = "date" -> [case |-> "fourth", value |-> x]
      [] OTHER -> [case |-> "none", value |-> Nil]

\* NativeShortcutData built by invokeShortcut from what the scan read.
ShortcutData(me, t) ==
    [identifier |-> me.cmd.v, nonce |-> me.nonce.v,
     parameters |-> [p \in ParamNames |-> Variant(me.params[p])],
     userConfirmed |-> me.uc, via |-> t]

\* invokeShortcut: DispatchQueue.main.async { instance.shortcutCallback?(data) }
ScanInvoke(t) ==
    /\ scan[t].pc = "invoke"
    /\ mainQueue' = Append(mainQueue, ShortcutData(scan[t], t))
    /\ ScanEnd(t)
    /\ UNCHANGED <<store, intent, lag, app, signals, dups, callback, hist, catalog, cli>>

ScanStep(t) ==
    \/ ScanReadCommand(t)
    \/ ScanReadNonce(t)
    \/ ScanReadConfirmed(t)
    \/ ScanSnapshot(t)
    \/ ScanReadType(t)
    \/ ScanReadValue(t)
    \/ ScanReadCurrent(t)
    \/ ScanClear(t)
    \/ ScanInvoke(t)

---------------------------------------------------------------------------
(* The application process: SiriShortcutsManager.ts, on the JavaScript      *)
(* thread.  One call of the manager's API is one step, except where it      *)
(* reads or writes the shared store, which is one step per access.          *)

Range(q) == {q[j] : j \in DOMAIN q}
Without(q, x) == SelectSeq(q, LAMBDA y : y # x)

NoData ==
    [identifier |-> "", nonce |-> "", parameters |-> [p \in ParamNames |-> Variant(Nil)],
     userConfirmed |-> Nil, via |-> ""]
NoFan == [active |-> FALSE, data |-> NoData, all |-> << >>, called |-> << >>, todo |-> << >>]

\* The message a listener answers an invocation with.
ReplyText(l, n) ==
    CASE l = "L1" /\ n = "N1" -> "L1 for N1"
      [] l = "L1" /\ n = "N2" -> "L1 for N2"
      [] l = "L2" /\ n = "N1" -> "L2 for N1"
      [] l = "L2" /\ n = "N2" -> "L2 for N2"
      [] OTHER -> ""

\* The invocation a message was computed for.
ReplyNonce(text) ==
    CASE text \in {"L1 for N1", "L2 for N1"} -> "N1"
      [] text \in {"L1 for N2", "L2 for N2"} -> "N2"
      [] OTHER -> ""

\* Variant of SetShortcutCallback: the callback is stored and nothing is read.
SetCallbackOnly ==
    /\ callback' = TRUE
    /\ scan' = scan

\* setShortcutCallback: the callback is stored, then handleDarwinNotification
\* runs on the calling thread.
SetShortcutCallback ==
    /\ callback' = TRUE
    /\ scan' = [scan EXCEPT !["js"] = ScanBegin("js")]

\* getNativeModule(): the Nitro module, which exists on iOS only.
GetNativeModule(m) == m.module

\* addEventListener('shortcut', l), with ensureNativeCallback: when the flag
\* is down and the module exists, setShortcutCallback stores the callback and
\* runs the scan on this thread before it returns.
AddEventListener(l) ==
    /\ app = "up"
    /\ JsIdle
    /\ js' = [js EXCEPT !.hasSet = TRUE,
                        !.listeners = IF l \in Range(@) THEN @ ELSE Append(@, l),
                        !.subs = @ \cup {l}]
    /\ IF js.nativeCallbackRegistered \/ ~GetNativeModule(js)
       THEN UNCHANGED <<callback, scan>>
       ELSE SetShortcutCallback
    /\ UNCHANGED <<store, intent, lag, app, signals, dups, mainQueue, hist, catalog, cli>>

\* Variant of FlagAfterRemove: the flag survives the last listener.
FlagKept(rest, flag) == flag

\* if (eventListeners.size === 0) this.nativeCallbackRegistered = false
FlagAfterRemove(rest, flag) == IF rest = << >> THEN FALSE ELSE flag

\* subscription.remove() of a subscription addEventListener returned for l:
\* the closure looks the set up in the map and deletes l from it.
RemoveSubscription(l) ==
    /\ JsIdle
    /\ l \in js.subs
    /\ js' = IF js.hasSet
             THEN [js EXCEPT !.listeners = Without(@, l),
                             !.nativeCallbackRegistered =
                                 FlagAfterRemove(Without(js.listeners, l), @)]
             ELSE js
    /\ hist' = [hist EXCEPT !.spent = @ \cup {l}]
    /\ UNCHANGED <<store, intent, lag, app, signals, dups, scan, callback, mainQueue, catalog, cli>>

\* An application value that is an object or an array.
Obj(o) == [t |-> "object", v |-> o]

\* JSON.stringify of an object or array; it throws for a circular one (Nil).
JsonStringify(x) ==
    CASE x = Obj("empty") -> Str("{}")
      [] x = Obj("list") -> Str("[1]")
      [] OTHER -> Nil

\* Variant of AppStateWrite: every value is stored as it is.
AppStateWriteRaw(s, key, value) == SetKey(s, KAppState(key), value)

\* Variant of KeysToClean: the tracked keys are cleaned whatever the argument.
KeysToCleanTracked(stateKeys, tracked) == tracked

\* The store write updateAppState makes for one entry (key, value).
AppStateWrite(s, key, value) ==
    LET k == KAppState(key) IN
    CASE value.t = "bool" -> SetKey(s, k, Num(IF value.v THEN 1 ELSE 0))
      [] value.t = "number" -> SetKey(s, k, value)
      [] value.t = "string" -> SetKey(s, k, value)
      [] value.t = "nil" -> RemoveKey(s, k)
      [] OTHER -> IF JsonStringify(value) = Nil THEN s
                  ELSE SetKey(s, k, JsonStringify(value))

\* updateAppState({key: value}): without the module it warns and returns.
UpdateAppState(key, value) ==
    /\ app = "up"
    /\ JsIdle
    /\ IF GetNativeModule(js)
       THEN /\ js' = [js EXCEPT !.trackedStateKeys = @ \cup {key}]
            /\ store' = AppStateWrite(store, key, value)
            /\ hist' = [hist EXCEPT !.published = @ \cup {key}]
       ELSE UNCHANGED <<js, store, hist>>
    /\ UNCHANGED <<intent, lag, app, signals, dups, scan, callback, mainQueue, catalog, cli>>

\* Variant of CleanedKey: cleanup sweeps the responses as well.
CleanedKeyResponse(key) == IF key = "timerRunning" THEN KResponse(Nonces[1]) ELSE KAppState(key)

\* `appState_${key}`: the store key cleanup removes for a state key.
CleanedKey(key) == KAppState(key)

\* const keysToClean = stateKeys ?? Array.from(this.trackedStateKeys)
KeysToClean(stateKeys, tracked) == IF stateKeys.given THEN stateKeys.keys ELSE tracked

\* The argument of cleanup: no argument, or an array of state keys.
NoStateKeys == [given |-> FALSE, keys |-> {}]
StateKeyList(ks) == [given |-> TRUE, keys |-> ks]

\* cleanup(stateKeys): the listeners map and the flag are reset, the keys to
\* clean are removed from the store when the module exists, and the tracked
\* keys are forgotten when no argument was given.
Cleanup(stateKeys) ==
    LET keysToClean == KeysToClean(stateKeys, js.trackedStateKeys) IN
    /\ app = "up"
    /\ JsIdle
    /\ js' = [js EXCEPT !.listeners = << >>,
                        !.hasSet = FALSE,
                        !.nativeCallbackRegistered = FALSE,
                        !.trackedStateKeys = IF stateKeys.given THEN @ ELSE {}]
    /\ store' = IF GetNativeModule(js)
                THEN [k \in Keys |-> IF k \in {CleanedKey(key) : key \in keysToClean}
                                     THEN Nil ELSE store[k]]
                ELSE store
    /\ hist' = [hist EXCEPT !.published = IF stateKeys.given THEN @ ELSE {},
                            !.swept = @ \cup {key \in keysToClean :
                                                 store'[KAppState(key)] # store[KAppState(key)]}]
    /\ UNCHANGED <<intent, lag, app, signals, dups, scan, callback, mainQueue, catalog, cli>>

\* The intent that published nonce n has returned its timeout message.
GaveUp(n) == \E i \in Intents : NonceOf(i) = n /\ intent[i].out.kind = "timeout"

\* The block of invokeShortcut runs on the main queue: shortcutCallback?(data).
\* The callback enters handleShortcutInvocation on the JavaScript thread.
MainRun ==
    LET data == Head(mainQueue) IN
    /\ mainQueue # << >>
    /\ scan["main"].pc = "idle"
    /\ JsIdle
    /\ mainQueue' = Tail(mainQueue)
    /\ IF callback
       THEN /\ js' = [js EXCEPT !.fan = [active |-> TRUE, data |-> data,
                                         all |-> js.listeners, called |-> << >>,
                                         todo |-> js.listeners]]
            /\ hist' = [hist EXCEPT !.delivered[data.nonce] = @ + 1,
                                    !.tardy = IF GaveUp(data.nonce) THEN @ \cup {data.nonce}
                                              ELSE @]
       ELSE UNCHANGED <<js, hist>>
    /\ UNCHANGED <<store, intent, lag, app, signals, dups, scan, callback, catalog, cli>>

\* Variant of ResponseKey: one response key shared by all invocations.
ResponseKeyShared(shortcut) == KResponse(Nonces[1])

\* The respond callback of one invocation: the key it writes.
ResponseKey(shortcut) == KResponse(shortcut.nonce)

\* respond({message}): IosIntentsModule.setSharedString(responseKey, message)
Respond(shortcut, message) == SetKey(store, ResponseKey(shortcut), Str(message))

\* Variant of RestAfter: the exception of a listener ends the forEach.
RestAfterAbort(todo, o) == IF o = "throw" THEN << >> ELSE Tail(todo)

\* The history after a response was written for nonce n: it is late when the
\* intent of n has already given up.
NoteResponse(n) ==
    [hist EXCEPT !.late = IF \E i \in Intents : /\ NonceOf(i) = n
                                                /\ intent[i].out.kind = "timeout"
                          THEN @ \cup {n} ELSE @]

\* What is left of the forEach after listener l ended with outcome o.
RestAfter(todo, o) == Tail(todo)

\* const message = response.message ?? '': a listener that answers silently
\* calls respond({}).
ResponseMessage(o, l, n) == IF o = "silent" THEN "" ELSE ReplyText(l, n)

\* One iteration of listeners.forEach in handleShortcutInvocation: the listener
\* answers with a message or without one, throws, or returns a promise that
\* settles later.
FanCall(o) ==
    LET f == js.fan
        l == Head(f.todo) IN
    /\ f.active
    /\ f.todo # << >>
    /\    /\ js' = [js EXCEPT !.fan.called = Append(@, <<l, o>>),
                              !.fan.todo = RestAfter(f.todo, o),
                              !.pending = IF o = "async" THEN @ \cup {<<l, f.data.nonce>>}
                                          ELSE @]
          /\ store' = IF o \in {"respond", "silent"}
                      THEN Respond(f.data, ResponseMessage(o, l, f.data.nonce))
                      ELSE store
          /\ hist' = IF o \in {"respond", "silent"} THEN NoteResponse(f.data.nonce) ELSE hist
    /\ UNCHANGED <<intent, lag, app, signals, dups, scan, callback, mainQueue, catalog, cli>>

\* forEach is over and handleShortcutInvocation returns.
FanEnd ==
    /\ js.fan.active
    /\ js.fan.todo = << >>
    /\ js' = [js EXCEPT !.fan = NoFan]
    /\ UNCHANGED <<store, intent, lag, app, signals, dups, scan, callback, mainQueue, hist, catalog, cli>>

\* The promise of an asynchronous listener settles: it answers and resolves,
\* or rejects and result.catch logs the error.
AsyncSettle ==
    /\ JsIdle
    /\ \E c \in js.pending :
          /\ js' = [js EXCEPT !.pending = @ \ {c}]
          /\ \/ /\ store' = Respond([nonce |-> c[2]], ReplyText(c[1], c[2]))
                /\ hist' = NoteResponse(c[2])
             \/ UNCHANGED <<store, hist>>
    /\ UNCHANGED <<intent, lag, app, signals, dups, scan, callback, mainQueue, catalog, cli>>

---------------------------------------------------------------------------
(* The generator: mergeStringCatalog of cli/utils.ts.  The catalog file is  *)
(* the text the previous run wrote; a catalog is the parsed object, whose   *)
(* strings are kept in the order of the object's keys.                      *)

\* Keys extractLocalizableStrings produces, and the languages of a catalog.
CatalogKeys == {"startTimer.title", "stopTimer.title"}
Languages == {"en", "de"}

StringUnit(state, value) == [state |-> state, value |-> value]
NoLocalizations == [l \in {} |-> StringUnit("", "")]

\* The value of one key of catalog.strings: an object with or without the
\* field localizations, or a value that is not truthy (null).
Entry(extractionState, hasLocalizations, localizations) ==
    [kind |-> "object", extractionState |-> extractionState,
     hasLocalizations |-> hasLocalizations, localizations |-> localizations]
NullEntry ==
    [kind |-> "null", extractionState |-> "",
     hasLocalizations |-> FALSE, localizations |-> NoLocalizations]

\* existingCatalogContent: null, a text JSON.parse throws for, or the text of
\* a catalog (sourceLanguage and version are "" when they are missing).
NoFile == [kind |-> "none", sourceLanguage |-> "", version |-> "", strings |-> << >>]
Garbage == [kind |-> "garbage", sourceLanguage |-> "", version |-> "", strings |-> << >>]
Json(sourceLanguage, version, strings) ==
    [kind |-> "json", sourceLanguage |-> sourceLanguage, version |-> version,
     strings |-> strings]

\* The position of a key among the strings (0 when it is no key of them).
IndexOf(strings, key) ==
    IF \E j \in DOMAIN strings : strings[j].key = key
    THEN CHOOSE j \in DOMAIN strings : strings[j].key = key
    ELSE 0

\* { stringUnit: { state: 'translated', value: value } }
EnglishUnit(value) == StringUnit("translated", value)

\* Variant of WithEnglish: the localizations are replaced by the English one.
OnlyEnglish(localizations, value) == [l \in {"en"} |-> EnglishUnit(value)]

\* catalog.strings[key].localizations.en = ...
WithEnglish(localizations, value) ==
    [l \in DOMAIN localizations \cup {"en"} |->
        IF l = "en" THEN EnglishUnit(value) ELSE localizations[l]]

\* New key - create with English localization only.
NewEntry(value) == Entry("manual", TRUE, WithEnglish(NoLocalizations, value))

\* Key exists - preserve all localizations, just update English default.
UpdatedEntry(e, value) ==
    [e EXCEPT !.hasLocalizations = TRUE,
              !.localizations = WithEnglish(IF e.hasLocalizations THEN @ ELSE NoLocalizations,
                                            value)]

\* Variant of MergeEntry: every new string is added as a new key.
MergeEntryAppends(strings, key, value) ==
    Append(strings, [key |-> key, entry |-> NewEntry(value)])

\* One iteration of Object.entries(newStrings).forEach.
MergeEntry(strings, key, value) ==
    LET j == IndexOf(strings, key) IN
    IF j # 0 /\ strings[j].entry.kind = "object"
    THEN [strings EXCEPT ![j].entry = UpdatedEntry(@, value)]
    ELSE IF j # 0
         THEN [strings EXCEPT ![j].entry = NewEntry(value)]
         ELSE Append(strings, [key |-> key, entry |-> NewEntry(value)])

RECURSIVE MergeAll(_, _)
MergeAll(strings, newStrings) ==
    IF newStrings = << >> THEN strings
    ELSE MergeAll(MergeEntry(strings, Head(newStrings).key, Head(newStrings).value),
                  Tail(newStrings))

\* Variant of BaseCatalog: the catalog started afresh carries no version.
BaseCatalogUnversioned(existingCatalogContent) ==
    IF existingCatalogContent.kind = "json"
    THEN Json(IF existingCatalogContent.sourceLanguage # ""
              THEN existingCatalogContent.sourceLanguage ELSE "en",
              IF existingCatalogContent.version # ""
              THEN existingCatalogContent.version ELSE "1.0",
              existingCatalogContent.strings)
    ELSE Json("en", "", << >>)

\* Variant of BaseCatalog: the existing catalog is not read.
FreshCatalog(existingCatalogContent) == Json("en", "1.0", << >>)

\* The base catalog: the parsed existing one with its strings, sourceLanguage
\* and version where they are present, or the empty one.
BaseCatalog(existingCatalogContent) ==
    IF existingCatalogContent.kind = "json"
    THEN Json(IF existingCatalogContent.sourceLanguage # ""
              THEN existingCatalogContent.sourceLanguage ELSE "en",
              IF existingCatalogContent.version # ""
              THEN existingCatalogContent.version ELSE "1.0",
              existingCatalogContent.strings)
    ELSE Json("en", "1.0", << >>)

\* mergeStringCatalog(newStrings, existingCatalogContent): the text returned.
mergeStringCatalog(newStrings, existingCatalogContent) ==
    [BaseCatalog(existingCatalogContent) EXCEPT !.strings = MergeAll(@, newStrings)]

\* No generation run was made.
NoGeneration == [file |-> NoFile, prev |-> NoFile, last |-> << >>, runs |-> 0]

\* Generation runs made on one catalog file.
MaxRuns == 2

\* One generation run with the new strings d: the file is replaced by the
\* merge of d into it.
Generate(d) ==
    /\ catalog.runs < MaxRuns
    /\ catalog' = [file |-> mergeStringCatalog(d, catalog.file), prev |-> catalog.file,
                   last |-> d, runs |-> catalog.runs + 1]
    /\ UNCHANGED <<store, intent, lag, app, signals, dups, scan, callback, mainQueue, js, hist, cli>>

---------------------------------------------------------------------------
(* The generator's text functions.  A text is the sequence of its           *)
(* characters, where a word without special characters may stand as one     *)
(* element; a file is the sequence of its lines.                            *)

\* No function of the generator was called.
NoCall == [fn |-> "none", in |-> << >>, old |-> << >>, out |-> << >>]

Quoted(text) == <<"\"">> \o text \o <<"\"">>

\* `"${phrase}" = "${phrase}";`
PhraseEntry(phrase) == Quoted(phrase) \o <<" ", "=", " ">> \o Quoted(phrase) \o <<";">>

\* "((?:[^"\\]|\\.)*)" from position i, the first one after the opening quote:
\* the position after the closing quote, 0 when the line ends before it.
RECURSIVE QuotedEnd(_, _)
QuotedEnd(line, i) ==
    IF i > Len(line) THEN 0
    ELSE IF line[i] = "\"" THEN i + 1
    ELSE IF line[i] = "\\" THEN (IF i + 1 > Len(line) THEN 0 ELSE QuotedEnd(line, i + 2))
    ELSE QuotedEnd(line, i + 1)

\* \s* from position i: the position of the first character that is no space.
RECURSIVE SkipSpaces(_, _)
SkipSpaces(line, i) ==
    IF i <= Len(line) /\ line[i] = " " THEN SkipSpaces(line, i + 1) ELSE i

\* line.match(/^"((?:[^"\\]|\\.)*)"\s*=\s*"((?:[^"\\]|\\.)*)";/)
MatchesEntry(line) ==
    /\ Len(line) >= 1
    /\ line[1] = "\""
    /\ LET k == QuotedEnd(line, 2) IN
       /\ k # 0
       /\ LET e == SkipSpaces(line, k) IN
          /\ e <= Len(line)
          /\ line[e] = "="
          /\ LET v == SkipSpaces(line, e + 1) IN
             /\ v <= Len(line)
             /\ line[v] = "\""
             /\ LET w == QuotedEnd(line, v + 1) IN
                /\ w # 0
                /\ w <= Len(line)
                /\ line[w] = ";"

\* p.startsWith(prefix)
StartsWith(p, prefix) == Len(prefix) <= Len(p) /\ SubSeq(p, 1, Len(prefix)) = prefix

\* Set.add: insertion order, a member is not added again.
SetAdd(set, x) == IF \E j \in DOMAIN set : set[j] = x THEN set ELSE Append(set, x)

\* The existing lines that match, in order.
RECURSIVE RetainedLines(_, _)
RetainedLines(lines, set) ==
    IF lines = << >> THEN set
    ELSE RetainedLines(Tail(lines),
                       IF MatchesEntry(Head(lines)) THEN SetAdd(set, Head(lines)) ELSE set)

\* [...phrases].some((p) => p.startsWith(`"${phrase}"`))
PhraseKnown(set, phrase) == \E j \in DOMAIN set : StartsWith(set[j], Quoted(phrase))

\* newPhrases.forEach: the identity line of every phrase not present yet.
RECURSIVE AddedPhrases(_, _)
AddedPhrases(newPhrases, set) ==
    IF newPhrases = << >> THEN set
    ELSE AddedPhrases(Tail(newPhrases),
                      IF PhraseKnown(set, Head(newPhrases)) THEN set
                      ELSE SetAdd(set, PhraseEntry(Head(newPhrases))))

\* mergeAppShortcutsStrings(newPhrases, existingContent): the lines of the
\* text returned; existingContent is given by its lines (none when it is null).
mergeAppShortcutsStrings(newPhrases, existingContent) ==
    AddedPhrases(newPhrases, RetainedLines(existingContent, << >>))

\* A call of mergeAppShortcutsStrings.
MergePhrases(newPhrases, existingContent) ==
    /\ cli = NoCall
    /\ cli' = [fn |-> "mergeAppShortcutsStrings", in |-> newPhrases, old |-> existingContent,
               out |-> mergeAppShortcutsStrings(newPhrases, existingContent)]
    /\ UNCHANGED <<store, intent, lag, app, signals, dups, scan, callback, mainQueue, js, hist,
                   catalog>>

\* str.includes(sub)
Includes(str, sub) ==
    \E i \in 1..(Len(str) - Len(sub) + 1) : SubSeq(str, i, i + Len(sub) - 1) = sub

\* The word the generator looks for in a phrase, and Swift's \(.applicationName).
ApplicationName == <<"applicationName">>
ApplicationNameToken == <<"\\", "(", ".">> \o ApplicationName \o <<")">>

\* escapeForSwift(str): backslash, double quote and newline get a backslash.
RECURSIVE escapeForSwift(_)
escapeForSwift(str) ==
    IF str = << >> THEN << >>
    ELSE LET c == Head(str) IN
         (IF c = "\\" THEN <<"\\", "\\">>
          ELSE IF c = "\"" THEN <<"\\", "\"">>
          ELSE IF c = "\n" THEN <<"\\", "n">>
          ELSE <<c>>) \o escapeForSwift(Tail(str))

\* generateAppShortcut: the body of the Swift string literal of one phrase.
ShortcutPhrase(phrase) ==
    IF Includes(phrase, ApplicationName) THEN escapeForSwift(phrase)
    ELSE escapeForSwift(phrase) \o <<" ", "in", " ">> \o ApplicationNameToken

\* generateAppShortcut(shortcut, useLocalization): the phrases: [...] list.
generateAppShortcut(phrases) == [i \in DOMAIN phrases |-> ShortcutPhrase(phrases[i])]

\* A call of generateAppShortcut.
GenerateAppShortcut(phrases) ==
    /\ cli = NoCall
    /\ cli' = [fn |-> "generateAppShortcut", in |-> phrases, old |-> << >>,
               out |-> generateAppShortcut(phrases)]
    /\ UNCHANGED <<store, intent, lag, app, signals, dups, scan, callback, mainQueue, js, hist,
                   catalog>>

\* \w of the characters used
WordChar(c) == c \in {"a", "b", "B", "_"}

\* (\w+)\} from position i: the position of the closing brace, 0 without one.
RECURSIVE NameEnd(_, _)
NameEnd(str, i) ==
    IF i > Len(str) THEN 0
    ELSE IF WordChar(str[i]) THEN NameEnd(str, i + 1)
    ELSE IF str[i] = "}" THEN i
    ELSE 0

\* regex.exec over /\$\{(\w+)\}/g from position i: the captured names.
RECURSIVE VariablesFrom(_, _)
VariablesFrom(str, i) ==
    IF i + 1 > Len(str) THEN << >>
    ELSE LET e == IF str[i] = "$" /\ str[i + 1] = "{" THEN NameEnd(str, i + 2) ELSE 0 IN
         IF e > i + 2 THEN <<SubSeq(str, i + 2, e - 1)>> \o VariablesFrom(str, e + 1)
         ELSE VariablesFrom(str, i + 1)

\* Variant of extractVariables: a name is listed once.
extractVariablesOnce(message) ==
    LET all == VariablesFrom(message, 1) IN
    LET first == SelectSeq([n \in DOMAIN all |->
                               <<all[n], \A k \in 1..(n - 1) : all[k] # all[n]>>],
                           LAMBDA x : x[2]) IN
    [n \in DOMAIN first |-> first[n][1]]

\* extractVariables(message)
extractVariables(message) == VariablesFrom(message, 1)

\* A call of extractVariables.
ExtractVariables(message) ==
    /\ cli = NoCall
    /\ cli' = [fn |-> "extractVariables", in |-> message, old |-> << >>,
               out |-> extractVariables(message)]
    /\ UNCHANGED <<store, intent, lag, app, signals, dups, scan, callback, mainQueue, js, hist,
                   catalog>>

\* [-_\s]
Separator(c) == c \in {"-", "_", " "}

\* c.toUpperCase()
ToUpperCase(c) == IF c = "a" THEN "A" ELSE IF c = "b" THEN "B" ELSE c

\* [-_\s]+ from position i: the position after the run.
RECURSIVE SkipSeparators(_, _)
SkipSeparators(str, i) ==
    IF i <= Len(str) /\ Separator(str[i]) THEN SkipSeparators(str, i + 1) ELSE i

\* Variant of ReplaceSeparators for /[-_\s](.)?/g: one separator at a time.
RECURSIVE ReplaceEachSeparator(_, _)
ReplaceEachSeparator(str, i) ==
    IF i > Len(str) THEN << >>
    ELSE IF Separator(str[i])
         THEN IF i + 1 > Len(str) THEN << >>
              ELSE <<ToUpperCase(str[i + 1])>> \o ReplaceEachSeparator(str, i + 2)
         ELSE <<str[i]>> \o ReplaceEachSeparator(str, i + 1)

\* str.replace(/[-_\s]+(.)?/g, (_, c) => (c ? c.toUpperCase() : '')) from i
RECURSIVE ReplaceSeparators(_, _)
ReplaceSeparators(str, i) ==
    IF i > Len(str) THEN << >>
    ELSE IF Separator(str[i])
         THEN LET j == SkipSeparators(str, i) IN
              IF j > Len(str) THEN << >>
              ELSE <<ToUpperCase(str[j])>> \o ReplaceSeparators(str, j + 1)
         ELSE <<str[i]>> \o ReplaceSeparators(str, i + 1)

\* .replace(/^(.)/, (_, c) => c.toUpperCase())
UpperFirst(str) == IF str = << >> THEN << >> ELSE <<ToUpperCase(Head(str))>> \o Tail(str)

\* pascalCase(str)
pascalCase(str) == UpperFirst(ReplaceSeparators(str, 1))

\* A call of pascalCase.
PascalCase(str) ==
    /\ cli = NoCall
    /\ cli' = [fn |-> "pascalCase", in |-> str, old |-> << >>, out |-> pascalCase(str)]
    /\ UNCHANGED <<store, intent, lag, app, signals, dups, scan, callback, mainQueue, js, hist,
                   catalog>>

---------------------------------------------------------------------------
(* The message of a state dialog at run time.  A message is a sequence of   *)
(* pieces: Word(w) for literal text, Placeholder(v) for the text ${v}.      *)

Word(w) == <<"w", w>>
Placeholder(v) == <<"$", v>>

\* extractVariables over the pieces of a message.
RECURSIVE MessageVariables(_)
MessageVariables(message) ==
    IF message = << >> THEN << >>
    ELSE (IF Head(message)[1] = "$" THEN <<Head(message)[2]>> ELSE << >>)
             \o MessageVariables(Tail(message))

\* message.replacingOccurrences(of: "${varName}", with: value)
RECURSIVE ReplacingOccurrences(_, _, _)
ReplacingOccurrences(message, varName, value) ==
    IF message = << >> THEN << >>
    ELSE (IF Head(message) = Placeholder(varName) THEN value ELSE <<Head(message)>>)
             \o ReplacingOccurrences(Tail(message), varName, value)

\* if let value = defaults.string(forKey:) ... else if let numValue =
\* defaults.object(forKey:) as? NSNumber: the text put in, Nil for neither.
InterpolationValue(s, varName) ==
    LET k == KAppState(varName) IN
    IF StringForKey(s, k) # Nil
    THEN (IF s[k].t = "string" THEN s[k].v ELSE <<Word(StringForKey(s, k).v)>>)
    ELSE IF NumberForKey(s, k) # Nil THEN <<Word(NumText(NumberForKey(s, k).v))>>
    ELSE Nil

\* The generated statements of generateMessageInterpolation, one group per
\* extracted variable, in order.
RECURSIVE InterpolateEach(_, _, _)
InterpolateEach(message, variables, s) ==
    IF variables = << >> THEN message
    ELSE LET value == InterpolationValue(s, Head(variables)) IN
         InterpolateEach(IF value = Nil THEN message
                         ELSE ReplacingOccurrences(message, Head(variables), value),
                         Tail(variables), s)

\* The dialog text perform() builds from a message and the store.
InterpolatedMessage(message, s) == InterpolateEach(message, MessageVariables(message), s)

\* A state dialog builds its message.
InterpolateMessage(message, s) ==
    /\ cli = NoCall
    /\ cli' = [fn |-> "interpolate", in |-> message, old |-> s,
               out |-> InterpolatedMessage(message, s)]
    /\ UNCHANGED <<store, intent, lag, app, signals, dups, scan, callback, mainQueue, js, hist,
                   catalog>>

---------------------------------------------------------------------------
(* The generation run (main of generate-shortcuts).  cli.in is what the run *)
(* finds on disk, cli.out is where the run stands and what it has written.  *)

\* The files the run generates, and the template of a configuration.
Artifacts == {"GeneratedAppIntents.swift", "Localizable.xcstrings", "AppShortcuts.strings",
              "shortcuts.generated.d.ts"}
Template == "shortcuts.config.ts"

\* What a run finds: the mode, the configuration files, whether ts-node
\* registers, what the ios directory holds, whether require(configPath)
\* succeeds, whether the configuration has shortcuts and localization.
Environments ==
    [mode : {"example", "library", "consumer"}, ts : BOOLEAN, js : BOOLEAN, tsNode : BOOLEAN,
     dir : {"ok", "noIos", "noXcodeproj", "noApp"}, loads : BOOLEAN, shortcuts : BOOLEAN,
     localization : BOOLEAN]

Run(env, pc, written, assembled, code) ==
    [fn |-> "main", in |-> env, old |-> << >>,
     out |-> [pc |-> pc, written |-> written, assembled |-> assembled, code |-> code]]

\* process.exit(code), or the end of main with code 0.
Exit(code) == Run(cli.in, "exit", cli.out.written, cli.out.assembled, code)

Goto(pc) == Run(cli.in, pc, cli.out.written, cli.out.assembled, cli.out.code)

\* fs.writeFileSync(path, content) and the next step.
WriteFile(file, pc) ==
    Run(cli.in, pc, cli.out.written \cup {file}, cli.out.assembled, cli.out.code)

\* Variant of DirFound: the app directory is not looked for.
DirAssumed(env) == TRUE

\* findAppOutputDir returns: ios exists, holds a .xcodeproj and the app directory.
DirFound(env) == env.dir = "ok"

\* main is started.
MainStart(env) ==
    /\ cli = NoCall
    /\ cli' = Run(env, "config", {}, FALSE, 0)
    /\ UNCHANGED <<store, intent, lag, app, signals, dups, scan, callback, mainQueue, js, hist,
                   catalog>>

\* The configuration file is looked for, per mode.
MainFindConfig ==
    /\ cli.fn = "main"
    /\ cli.out.pc = "config"
    /\ LET env == cli.in IN
       cli' = IF env.mode = "library"
              THEN (IF env.js THEN Goto("load") ELSE Exit(1))
              ELSE IF env.ts THEN (IF env.tsNode THEN Goto("dir") ELSE Exit(1))
              ELSE IF env.js THEN Goto("dir")
              ELSE IF env.mode = "example" THEN Exit(1)
              ELSE [Exit(0) EXCEPT !.out.written = @ \cup {Template}]
    /\ UNCHANGED <<store, intent, lag, app, signals, dups, scan, callback, mainQueue, js, hist,
                   catalog>>

\* findAppOutputDir (example and consumer mode).
MainFindDir ==
    /\ cli.fn = "main"
    /\ cli.out.pc = "dir"
    /\ cli' = IF DirFound(cli.in) THEN Goto("load") ELSE Exit(1)
    /\ UNCHANGED <<store, intent, lag, app, signals, dups, scan, callback, mainQueue, js, hist,
                   catalog>>

\* require(configPath) and the check of config.shortcuts.
MainLoad ==
    /\ cli.fn = "main"
    /\ cli.out.pc = "load"
    /\ cli' = IF cli.in.loads /\ cli.in.shortcuts THEN Goto("assemble") ELSE Exit(1)
    /\ UNCHANGED <<store, intent, lag, app, signals, dups, scan, callback, mainQueue, js, hist,
                   catalog>>

\* swiftCode = generateSwiftFile(config, useLocalization)
MainAssemble ==
    /\ cli.fn = "main"
    /\ cli.out.pc = "assemble"
    /\ cli' = [Goto("swift") EXCEPT !.out.assembled = TRUE]
    /\ UNCHANGED <<store, intent, lag, app, signals, dups, scan, callback, mainQueue, js, hist,
                   catalog>>

\* GeneratedAppIntents.swift is written; in library mode the directory was
\* not looked for, and writing into a missing one throws (caught: exit 1).
MainWriteSwift ==
    /\ cli.fn = "main"
    /\ cli.out.pc = "swift"
    /\ cli' = IF cli.in.mode = "library" /\ cli.in.dir = "noIos" THEN Exit(1)
              ELSE WriteFile("GeneratedAppIntents.swift",
                             IF cli.in.localization THEN "catalog" ELSE "types")
    /\ UNCHANGED <<store, intent, lag, app, signals, dups, scan, callback, mainQueue, js, hist,
                   catalog>>

\* Localizable.xcstrings is merged and written.
MainWriteCatalog ==
    /\ cli.fn = "main"
    /\ cli.out.pc = "catalog"
    /\ cli' = WriteFile("Localizable.xcstrings", "phrases")
    /\ UNCHANGED <<store, intent, lag, app, signals, dups, scan, callback, mainQueue, js, hist,
                   catalog>>

\* AppShortcuts.strings is merged and written.
MainWritePhrases ==
    /\ cli.fn = "main"
    /\ cli.out.pc = "phrases"
    /\ cli' = WriteFile("AppShortcuts.strings", "types")
    /\ UNCHANGED <<store, intent, lag, app, signals, dups, scan, callback, mainQueue, js, hist,
                   catalog>>

\* shortcuts.generated.d.ts is written and main ends.
MainWriteTypes ==
    /\ cli.fn = "main"
    /\ cli.out.pc = "types"
    /\ cli' = [Exit(0) EXCEPT !.out.written = @ \cup {"shortcuts.generated.d.ts"}]
    /\ UNCHANGED <<store, intent, lag, app, signals, dups, scan, callback, mainQueue, js, hist,
                   catalog>>

---------------------------------------------------------------------------
(* Specifications.  Each one starts from a configuration the program can    *)
(* be in and lets the operations a group of properties is about interleave. *)

\* SiriShortcutsManager after construction.
NewManager ==
    [listeners |-> << >>, hasSet |-> FALSE, nativeCallbackRegistered |-> FALSE,
     subs |-> {}, trackedStateKeys |-> {}, fan |-> NoFan, pending |-> {},
     module |-> TRUE]

\* SiriShortcutsManager after addEventListener was called for each of ls, in
\* order, and the scan of the registration found no command.
ManagerWith(ls) ==
    [NewManager EXCEPT !.listeners = ls, !.hasSet = TRUE, !.subs = Range(ls),
                       !.nativeCallbackRegistered = TRUE]

NoHistory ==
    [delivered |-> [n \in Range(Nonces) |-> 0], writer |-> [k \in Keys |-> 0],
     late |-> {}, spent |-> {}, published |-> {}, swept |-> {}, tardy |-> {}]

\* Nothing runs: the store is empty, no intent was invoked, the application
\* process does not exist.
Init ==
    /\ store = [k \in Keys |-> Nil]
    /\ intent = [i \in Intents |-> IdleIntent]
    /\ lag = CoarseLag
    /\ app = "down"
    /\ signals = 0
    /\ dups = 0
    /\ scan = [t \in Threads |-> IdleScan]
    /\ callback = FALSE
    /\ mainQueue = << >>
    /\ js = NewManager
    /\ hist = NoHistory
    /\ catalog = NoGeneration
    /\ cli = NoCall

\* The application runs and has registered the listeners ls; sleeps take d
\* ticks more than asked.
InitWarm(ls, d) ==
    /\ store = [k \in Keys |-> Nil]
    /\ intent = [i \in Intents |-> IdleIntent]
    /\ lag = d
    /\ app = "up"
    /\ signals = 0
    /\ dups = 0
    /\ scan = [t \in Threads |-> IdleScan]
    /\ callback = TRUE
    /\ mainQueue = << >>
    /\ js = ManagerWith(ls)
    /\ hist = NoHistory
    /\ catalog = NoGeneration
    /\ cli = NoCall

\* Values the application publishes as app state.
AppStateInputs == {Bool(TRUE), Bool(FALSE), Nil}

\* One invocation of any shortcut against an application that is launched,
\* registers and unregisters a listener and publishes its state at any time.
Next ==
    \/ \E sc \in Shortcuts, ok \in BOOLEAN : IntentStart(1, sc, ok)
    \/ IntentStep(1)
    \/ AppLaunch
    \/ DuplicateSignal
    \/ SignalDeliver
    \/ \E t \in Threads : ScanStep(t)
    \/ MainRun
    \/ \E l \in {"L1"} : AddEventListener(l)
    \/ \E l \in {"L1"} : RemoveSubscription(l)
    \/ \E k \in StateKeys, v \in AppStateInputs : UpdateAppState(k, v)
    \/ \E o \in {"respond", "throw"} : FanCall(o)
    \/ FanEnd

Spec == Init /\ [][Next]_vars

\* Cold start: one invocation, the application launched at any time and
\* registering once.  The registration scan and the main queue are scheduled
\* fairly: setShortcutCallback runs to its end, the main queue runs its blocks.
ColdNext ==
    \/ \E sc \in Shortcuts : IntentStart(1, sc, TRUE)
    \/ IntentStep(1)
    \/ AppLaunch
    \/ DuplicateSignal
    \/ SignalDeliver
    \/ \E t \in Threads : ScanStep(t)
    \/ MainRun
    \/ AddEventListener("L1")
    \/ FanCall("respond")
    \/ FanEnd

ColdSpec ==
    Init /\ [][ColdNext]_vars /\ WF_vars(ScanStep("js")) /\ WF_vars(MainRun)

\* Two invocations, the second started once the first has published, against
\* a running application with one listener; scans run on the main thread.
TwoNext ==
    \/ \E sc \in Shortcuts : IntentStart(1, sc, TRUE)
    \/ \E sc \in Shortcuts : IntentStart(2, sc, TRUE)
    \/ \E i \in Intents : IntentStep(i)
    \/ SignalDeliver
    \/ ScanStep("main")
    \/ MainRun
    \/ FanCall("respond")
    \/ FanEnd

TwoSpec == InitWarm(<<"L1">>, CoarseLag) /\ [][TwoNext]_vars

\* The poll loop tick by tick: one invocation whose sleeps are exact, against
\* a running application whose listener answers at any moment or never.
PollNext ==
    \/ IntentStart(1, 3, TRUE)
    \/ IntentStep(1)
    \/ SignalDeliver
    \/ ScanStep("main")
    \/ MainRun
    \/ \E o \in {"respond", "throw"} : FanCall(o)
    \/ FanEnd

PollSpec == InitWarm(<<"L1">>, 0) /\ [][PollNext]_vars

\* The same, with a listener that may also answer without a message.
SilentNext ==
    \/ IntentStart(1, 3, TRUE)
    \/ IntentStep(1)
    \/ SignalDeliver
    \/ ScanStep("main")
    \/ MainRun
    \/ \E o \in {"respond", "silent", "throw"} : FanCall(o)
    \/ FanEnd

SilentSpec == InitWarm(<<"L1">>, 0) /\ [][SilentNext]_vars

\* The intent process is scheduled: a step of perform() that can be taken is
\* taken.
PollLive == PollSpec /\ WF_vars(IntentStep(1))

\* The fan-out: one invocation against a running application with two
\* listeners, each of which answers, throws or answers later, and which are
\* added, removed and cleaned up at any time.
FanNext ==
    \/ IntentStart(1, 3, TRUE)
    \/ IntentStep(1)
    \/ SignalDeliver
    \/ \E t \in Threads : ScanStep(t)
    \/ MainRun
    \/ \E l \in Listeners : AddEventListener(l)
    \/ \E l \in Listeners : RemoveSubscription(l)
    \/ \E a \in {NoStateKeys, StateKeyList(StateKeys)} : Cleanup(a)
    \/ \E o \in {"respond", "throw", "async"} : FanCall(o)
    \/ FanEnd
    \/ AsyncSettle

FanSpec == InitWarm(<<"L1", "L2">>, CoarseLag) /\ [][FanNext]_vars

\* The parameters: one invocation of the shortcut with a parameter of every
\* type against a running application with one listener; the scan reads the
\* parameter keys in any order.
ParamNext ==
    \/ IntentStart(1, TestParams, TRUE)
    \/ IntentStep(1)
    \/ SignalDeliver
    \/ ScanStep("main")
    \/ MainRun
    \/ FanCall("respond")
    \/ FanEnd

ParamSpec == InitWarm(<<"L1">>, CoarseLag) /\ [][ParamNext]_vars

\* The manager alone: the application runs, on iOS or on another platform,
\* and has called nothing yet.
ManagerInit ==
    /\ store = [k \in Keys |-> Nil]
    /\ intent = [i \in Intents |-> IdleIntent]
    /\ lag = CoarseLag
    /\ app = "up"
    /\ signals = 0
    /\ dups = 0
    /\ scan = [t \in Threads |-> IdleScan]
    /\ callback = FALSE
    /\ mainQueue = << >>
    /\ \E ios \in BOOLEAN : js = [NewManager EXCEPT !.module = ios]
    /\ hist = NoHistory
    /\ catalog = NoGeneration
    /\ cli = NoCall

\* Values of every kind the application publishes as app state; the last
\* one is an object JSON.stringify throws for.
ManagerInputs ==
    {Bool(TRUE), Bool(FALSE), Num(7), Str("Work"), Nil,
     Obj("empty"), Obj("list"), Obj("circular")}

\* The arguments cleanup is called with.
CleanupInputs == {NoStateKeys} \cup {StateKeyList(ks) : ks \in SUBSET PublishedKeys}

\* Any sequence of calls of the manager's API; no shortcut is invoked, so the
\* scan inside setShortcutCallback finds no pending command and returns.
ManagerNext ==
    \/ \E l \in Listeners : AddEventListener(l)
    \/ \E l \in Listeners : RemoveSubscription(l)
    \/ \E a \in CleanupInputs : Cleanup(a)
    \/ \E k \in PublishedKeys, v \in ManagerInputs : UpdateAppState(k, v)
    \/ ScanReadCommand("js")

ManagerSpec == ManagerInit /\ [][ManagerNext]_vars

\* Localizations, entries and strings of the catalogs a run may find.
LocalizationInputs ==
    UNION {[S -> {StringUnit("translated", "Start"), StringUnit("needs_review", "Begin"),
                  StringUnit("translated", "Anfang")}] : S \in SUBSET Languages}
EntryInputs ==
    {NullEntry} \cup {Entry(es, FALSE, NoLocalizations) : es \in {"manual", "stale"}}
        \cup {Entry(es, TRUE, loc) : es \in {"manual", "stale"},
                                     loc \in {x \in LocalizationInputs :
                                                 /\ "en" \in DOMAIN x =>
                                                        x["en"].value # "Anfang"
                                                 /\ "de" \in DOMAIN x =>
                                                        x["de"].value = "Anfang"}}
StringsInputs ==
    {<< >>}
        \cup {<<[key |-> k, entry |-> e]>> : k \in CatalogKeys, e \in EntryInputs}
        \cup {<<[key |-> k[1], entry |-> e[1]], [key |-> k[2], entry |-> e[2]]>> :
                 k \in {x \in CatalogKeys \X CatalogKeys : x[1] # x[2]},
                 e \in EntryInputs \X EntryInputs}

\* The catalog files a run may find.
ExistingInputs ==
    {NoFile, Garbage}
        \cup {Json(sl, v, strings) : sl \in {"", "en", "de"}, v \in {"", "2.0"},
                                     strings \in StringsInputs}

\* The new strings of a run: any keys, in any order, with any values.
NewStringsInputs ==
    {<< >>}
        \cup {<<[key |-> k, value |-> v]>> : k \in CatalogKeys, v \in {"Start", "Go"}}
        \cup {<<[key |-> k[1], value |-> v[1]], [key |-> k[2], value |-> v[2]]>> :
                 k \in {x \in CatalogKeys \X CatalogKeys : x[1] # x[2]},
                 v \in {"Start", "Go"} \X {"Start", "Go"}}

\* The generator alone: successive runs on a catalog file of any content.
CatalogInit ==
    /\ store = [k \in Keys |-> Nil]
    /\ intent = [i \in Intents |-> IdleIntent]
    /\ lag = CoarseLag
    /\ app = "down"
    /\ signals = 0
    /\ dups = 0
    /\ scan = [t \in Threads |-> IdleScan]
    /\ callback = FALSE
    /\ mainQueue = << >>
    /\ js = NewManager
    /\ hist = NoHistory
    /\ \E e \in ExistingInputs :
          catalog = [file |-> e, prev |-> NoFile, last |-> << >>, runs |-> 0]
    /\ cli = NoCall

CatalogNext == \E d \in NewStringsInputs : Generate(d)

CatalogSpec == CatalogInit /\ [][CatalogNext]_vars

\* The generator's text functions alone: nothing else runs.
CliInit ==
    /\ store = [k \in Keys |-> Nil]
    /\ intent = [i \in Intents |-> IdleIntent]
    /\ lag = CoarseLag
    /\ app = "down"
    /\ signals = 0
    /\ dups = 0
    /\ scan = [t \in Threads |-> IdleScan]
    /\ callback = FALSE
    /\ mainQueue = << >>
    /\ js = NewManager
    /\ hist = NoHistory
    /\ catalog = NoGeneration
    /\ cli = NoCall

\* Sequences over a set, up to a length.
SeqsUpTo(S, n) == UNION {[1..m -> S] : m \in 0..n}

\* Phrases: two plain ones and one that contains a double quote.
PhraseInputs == {<<"A">>, <<"B">>, <<"A", "\"", "B">>}

\* Lines of an existing AppShortcuts.strings: identity lines, a translated
\* line, a line without spaces, a line with a trailing remark, a comment and
\* an empty line.
LineInputs ==
    {PhraseEntry(<<"A">>), PhraseEntry(<<"B">>),
     Quoted(<<"A">>) \o <<" ", "=", " ">> \o Quoted(<<"X">>) \o <<";">>,
     Quoted(<<"B">>) \o <<"=">> \o Quoted(<<"B">>) \o <<";">>,
     PhraseEntry(<<"B">>) \o <<" ", "/">>,
     <<"/", "/", " ", "A">>,
     << >>}

MaxPhrases == 3
MaxLines == 2

PhraseNext ==
    \E p \in SeqsUpTo(PhraseInputs, MaxPhrases), e \in SeqsUpTo(LineInputs, MaxLines) :
        MergePhrases(p, e)

PhraseSpec == CliInit /\ [][PhraseNext]_vars

\* Phrases of a shortcut: plain, with a quoted word, with the word
\* applicationName alone, and with Swift's token.
ShortcutPhraseInputs ==
    {<<"test">>,
     <<"say", " ", "\"", "hi", "\"">>,
     <<"test", " ", "in", " ">> \o ApplicationName,
     <<"go", " ">> \o ApplicationNameToken}

\* Pieces of templates: the characters, and "${" as one piece so that two
\* placeholders fit in a short template.
TemplatePieces == {<<"$", "{">>, <<"$">>, <<"{">>, <<"}">>, <<"a">>, <<"b">>}

RECURSIVE Flatten(_)
Flatten(pieces) == IF pieces = << >> THEN << >> ELSE Head(pieces) \o Flatten(Tail(pieces))

\* Characters of identifiers.
IdentifierChars == {"a", "b", "B", "-", "_", " "}

MaxShortcutPhrases == 2
MaxTemplate == 6
MaxIdentifier == 4

\* One call from the initial state; the guard stands before the inputs so
\* that they are enumerated in the initial state only.
CallGenerateAppShortcut ==
    /\ cli = NoCall
    /\ \E p \in SeqsUpTo(ShortcutPhraseInputs, MaxShortcutPhrases) : GenerateAppShortcut(p)

CallExtractVariables ==
    /\ cli = NoCall
    /\ \E t \in SeqsUpTo(TemplatePieces, MaxTemplate) : ExtractVariables(Flatten(t))

CallPascalCase ==
    /\ cli = NoCall
    /\ \E str \in SeqsUpTo(IdentifierChars, MaxIdentifier) : PascalCase(str)

TextNext == CallPascalCase \/ CallGenerateAppShortcut \/ CallExtractVariables

TextSpec == CliInit /\ [][TextNext]_vars

\* In library mode the run looks at lib/module/shortcuts.config.js and at
\* the ios directory of the project only.
RunInputs ==
    {env \in Environments :
        env.mode = "library" => ~env.ts /\ env.tsNode /\ env.dir \in {"ok", "noIos"}}

RunNext ==
    \/ \E env \in RunInputs : MainStart(env)
    \/ MainFindConfig
    \/ MainFindDir
    \/ MainLoad
    \/ MainAssemble
    \/ MainWriteSwift
    \/ MainWriteCatalog
    \/ MainWritePhrases
    \/ MainWriteTypes

RunSpec == CliInit /\ [][RunNext]_vars

\* Messages over a word and two placeholders; the application published for
\* each variable nothing, a text, a text that reads like a placeholder, or a
\* number.
MessageVars == {"a", "b"}
MessagePieces == {Word("Timer")} \cup {Placeholder(v) : v \in MessageVars}
PublishedTexts == {Nil, Str(<<Word("x")>>), Str(<<Placeholder("b")>>), Num(5)}
MaxMessage == 3

MessageNext ==
    /\ cli = NoCall
    /\ \E message \in SeqsUpTo(MessagePieces, MaxMessage),
          s \in [{KAppState(v) : v \in MessageVars} -> PublishedTexts] :
          InterpolateMessage(message, s)

MessageSpec == CliInit /\ [][MessageNext]_vars

---------------------------------------------------------------------------
(* Properties.                                                              *)

\* The keys of a pending command: what a scan clears.
PendingKeys ==
    Range(CommandKeys) \cup {KParam(p) : p \in ParamNames}
        \cup {KParamType(p) : p \in ParamNames}

\* The invocation a nonce text belongs to (0 when it is no nonce).
Owner(n) == IF \E i \in Intents : NonceOf(i) = n
            THEN CHOOSE i \in Intents : NonceOf(i) = n ELSE 0

\* C1: a scan removes a key of the pending command only when that key belongs
\* to the command whose nonce the scan read at its start; the keys a second
\* invocation wrote in the interim are left intact, under every interleaving
\* of the intent's writes with the scan's reads and removes.
C1_ClearLeavesNewCommand ==
    [][\A k \in PendingKeys :
          (store[k] # Nil /\ store'[k] = Nil) =>
              \E t \in Threads : /\ scan[t].pc = "clear"
                                 /\ scan'[t] # scan[t]
                                 /\ hist.writer[k] = Owner(scan[t].nonce.v)]_vars

\* C2: a response key holds only a response computed for the invocation of
\* that key's nonce, and what an intent reads and returns as response was
\* written for its own invocation.
C2_OwnResponseOnly ==
    /\ \A n \in Range(Nonces) :
          store[KResponse(n)] # Nil => ReplyNonce(store[KResponse(n)].v) = n
    /\ \A i \in Intents :
          /\ intent[i].got # Nil => ReplyNonce(intent[i].got.v) = NonceOf(i)
          /\ intent[i].out.kind = "response" =>
                ReplyNonce(intent[i].out.msg.v) = NonceOf(i)

\* Both invocations were answered, each under its own nonce.
C2_BothAnswered ==
    /\ intent[1].out = [kind |-> "response", msg |-> Str(ReplyText("L1", "N1"))]
    /\ intent[2].out = [kind |-> "response", msg |-> Str(ReplyText("L1", "N2"))]

\* C3: a response that is in the store under the intent's nonce while the
\* intent waits and its timeout has not elapsed is observed by the poll loop:
\* the intent returns it and deletes the key.
C3_ResponseBeforeTimeoutReturned ==
    (/\ intent[1].pc \in {"poll", "sleep"}
     /\ intent[1].elapsed < Timeout
     /\ store[KResponse(NonceOf(1))] # Nil)
        ~> (/\ intent[1].out.kind = "response"
            /\ store[KResponse(NonceOf(1))] = Nil)

\* The outcome of an invocation that published its command.
PublishedOutcome(i) ==
    LET me == intent[i] IN
    \/ /\ me.out.kind = "response"
       /\ me.out.msg = me.got
       /\ ReplyNonce(me.got.v) = NonceOf(i)
    \/ /\ me.out.kind = "timeout"
       /\ me.out.msg = Str(TimeoutMessage)
       /\ me.got = Nil
       /\ me.polls * PollInterval = Timeout
       /\ me.elapsed = Timeout

\* C4: an invocation that published its command ends, and ends in one of two
\* ways: with the response read under its own nonce, or, after polls made
\* every 0.1 s over 5.0 s that saw none, with the reply "Done"; it ends
\* whatever the application does.
C4_PublishedIntentEnds ==
    /\ [](intent[1].posted /\ intent[1].pc = "done" => PublishedOutcome(1))
    /\ (intent[1].posted ~> intent[1].pc = "done")

\* The intent gave up after its fifty polls.
C4_TimedOut ==
    /\ intent[1].out.kind = "timeout"
    /\ intent[1].polls = 50
    /\ hist.delivered[NonceOf(1)] = 1

\* Invocation i wrote no key, posted no signal and reached no listener.
NothingPublished(i) ==
    /\ intent[i].writes = 0
    /\ ~intent[i].posted
    /\ intent[i].polls = 0
    /\ \A k \in PendingKeys : hist.writer[k] # i
    /\ hist.delivered[NonceOf(i)] = 0

\* The dialog invocation i is at, when it is at a message-only dialog whose
\* condition holds.
AtSatisfiedMessage(i) ==
    LET me == intent[i] IN
    /\ me.pc = "dialogs"
    /\ me.idx <= Len(Config[me.sc].stateDialogs)
    /\ ~Config[me.sc].stateDialogs[me.idx].requiresConfirmation
    /\ SwiftCondition(store, Config[me.sc].stateDialogs[me.idx])

C7_StoreFailureEnds ==
    \A i \in Intents : intent[i].pc # "idle" /\ ~intent[i].opened =>
        /\ intent[i].pc = "done"
        /\ intent[i].out = [kind |-> "error", msg |-> Str("Failed to communicate with app")]
        /\ intent[i].asked = 0
        /\ intent[i].confirms = 0
        /\ NothingPublished(i)

\* The store could not be opened for an invocation of addTask, which has a
\* parameter to ask for.
C7_StoreFailed ==
    /\ intent[1].out.kind = "error"
    /\ intent[1].sc = 3
    /\ ~intent[1].opened

\* The registration is under way (the callback is stored, ensureNativeCallback
\* has not returned), a complete command is in the store, and no signal is
\* pending or being handled.
ColdStart ==
    /\ callback
    /\ ~js.nativeCallbackRegistered
    /\ StringForKey(store, KPending) # Nil
    /\ StringForKey(store, KNonce) # Nil
    /\ signals = 0
    /\ scan["main"].pc = "idle"

\* The callback runs with a command the scan of the registration read.
HandedByRegistration ==
    /\ js.fan.active
    /\ js.fan.data.via = "js"
    /\ js.fan.data.nonce = NonceOf(1)
    /\ js.fan.data.identifier = Config[intent[1].sc].identifier

\* C8: when the callback is registered while a complete command is in the
\* store, the registration itself reads the command and hands it to the
\* callback, unless a signal arrives in the meantime.
C8_ColdStartHandsOver == ColdStart ~> (HandedByRegistration \/ signals > 0)

\* The callback runs with the command before the intent has posted its signal
\* and without any other signal.
C8_HandedWithoutSignal ==
    /\ HandedByRegistration
    /\ intent[1].pc = "post"
    /\ signals = 0
    /\ dups = 0

\* C9: the command of a nonce is handed to the callback at most once.
C9_AtMostOnce == \A n \in Range(Nonces) : hist.delivered[n] <= 1

\* The listeners the forEach of the current invocation has called, in order.
CalledListeners == [j \in DOMAIN js.fan.called |-> js.fan.called[j][1]]

\* C10: during the fan-out of an invocation the listeners called so far and
\* those still to call are the listeners registered when it began, whatever
\* the outcome of each call, and a listener that answers after another one
\* threw writes its response.
C10_AllListenersCalled ==
    /\ [](js.fan.active =>
             /\ js.fan.all = js.listeners
             /\ CalledListeners \o js.fan.todo = js.fan.all)
    /\ [][js.fan.active /\ Len(js'.fan.called) = Len(js.fan.called) + 1 =>
             LET c == js'.fan.called[Len(js'.fan.called)] IN
             /\ c[1] = Head(js.fan.todo)
             /\ c[2] = "respond" =>
                   store'[KResponse(js.fan.data.nonce)] =
                       Str(ReplyText(c[1], js.fan.data.nonce))]_vars

\* The first listener threw, the second one was called and its response is in
\* the store.
C10_SecondAnsweredAfterThrow ==
    /\ js.fan.active
    /\ js.fan.todo = << >>
    /\ js.fan.called = << <<"L1", "throw">>, <<"L2", "respond">> >>
    /\ store[KResponse("N1")] = Str(ReplyText("L2", "N1"))

\* C11: once an intent has given up, a response stored under its nonce is
\* read and deleted by no one: the key stays present in every later state and
\* the result of the intent stays the reply "Done".
C11_LateResponseOrphaned ==
    [][\A i \in Intents :
          intent[i].out.kind = "timeout" =>
              /\ intent'[i].out = [kind |-> "timeout", msg |-> Str(TimeoutMessage)]
              /\ store[KResponse(NonceOf(i))] # Nil =>
                    store'[KResponse(NonceOf(i))] # Nil]_vars

\* The listener answered after the intent had given up, the fan-out is over
\* and the response is still in the store.
C11_OrphanInStore ==
    /\ intent[1].out.kind = "timeout"
    /\ NonceOf(1) \in hist.late
    /\ ~js.fan.active
    /\ js.pending = {}
    /\ store[KResponse(NonceOf(1))] # Nil

\* C12: the invocation handed to the listeners carries userConfirmed = true
\* only if the user confirmed a state dialog of that invocation, carries no
\* userConfirmed when that invocation showed no confirmation dialog, and the
\* UserConfirmed key is in the store only when its writer showed one.
C12_UserConfirmedTracksDialog ==
    /\ js.fan.active /\ Owner(js.fan.data.nonce) # 0 =>
          LET me == intent[Owner(js.fan.data.nonce)] IN
          /\ js.fan.data.userConfirmed = Bool(TRUE) => me.uc /\ me.confirms > 0
          /\ me.confirms = 0 => js.fan.data.userConfirmed = Nil
    /\ store[KConfirmed] # Nil => intent[hist.writer[KConfirmed]].confirms > 0

\* The variant the declared type of a parameter promises for the value the
\* intent wrote.
DeclaredVariant(type, val) ==
    CASE type = "string" -> [case |-> "second", value |-> val]
      [] type = "number" -> [case |-> "third", value |-> val]
      [] type = "boolean" -> [case |-> "first", value |-> val]
      [] OTHER -> [case |-> "fourth", value |-> val]

\* C13: every parameter the intent wrote with declared type string, number,
\* boolean or date reaches the listeners as the variant of that type carrying
\* the value written.
C13_DecodedAsDeclared ==
    js.fan.active /\ Owner(js.fan.data.nonce) # 0 =>
        LET me == intent[Owner(js.fan.data.nonce)]
            ps == Config[me.sc].parameters IN
        \A j \in DOMAIN ps :
            js.fan.data.parameters[ps[j].name] = DeclaredVariant(ps[j].type, me.params[ps[j].name])

\* A step in which the native setShortcutCallback is called: the scan it runs
\* on the JavaScript thread starts.
SetShortcutCallbackCalled == scan["js"].pc = "idle" /\ scan'["js"].pc # "idle"

\* C14: on iOS setShortcutCallback is called exactly in the steps that add a
\* listener while no listener is registered (the first one, and the first one
\* after cleanup or after the last listener was removed), and in no step that
\* adds a listener while another one is registered.
C14_RegistersOnFirstListener ==
    [][js.module =>
          (SetShortcutCallbackCalled <=>
              /\ js.listeners = << >>
              /\ \E l \in Listeners : AddEventListener(l))]_vars

\* The callback was registered, the last listener was removed, and adding a
\* listener registered it again.
C14_RegisteredAgain ==
    /\ js.module
    /\ hist.spent # {}
    /\ js.listeners # << >>
    /\ scan["js"].pc # "idle"

\* C17: updateAppState writes the entry (k, v) under appState_<k> as 1 or 0
\* for true or false, as the number, as the string, as a removal for null or
\* undefined and as the JSON text for any other value that has one, and
\* touches no other key; off iOS it leaves the store alone.
C17_WrittenByType ==
    [][\A k \in PublishedKeys, v \in ManagerInputs :
          UpdateAppState(k, v) =>
              IF ~js.module THEN store' = store
              ELSE /\ \A o \in Keys \ {KAppState(k)} : store'[o] = store[o]
                   /\ v = Bool(TRUE) => store'[KAppState(k)] = Num(1)
                   /\ v = Bool(FALSE) => store'[KAppState(k)] = Num(0)
                   /\ v = Num(7) => store'[KAppState(k)] = Num(7)
                   /\ v = Str("Work") => store'[KAppState(k)] = Str("Work")
                   /\ v = Nil => store'[KAppState(k)] = Nil
                   /\ v = Obj("empty") => store'[KAppState(k)] = Str("{}")
                   /\ v = Obj("list") => store'[KAppState(k)] = Str("[1]")]_vars

\* On iOS a boolean was published as 1 and an object as its JSON text.
C17_BooleanAndObjectPublished ==
    /\ js.module
    /\ store[KAppState("timerRunning")] = Num(1)
    /\ store[KAppState("taskName")] = Str("{}")

\* C16: on iOS cleanup() without argument leaves no listener, removes every
\* appState key published since the previous full cleanup and nothing else,
\* and empties the tracked keys; cleanup(keys) removes exactly the listed
\* appState keys and leaves the tracked keys as they were.
C16_CleanupClears ==
    [][\A a \in CleanupInputs :
          js.module /\ Cleanup(a) =>
              /\ js'.listeners = << >>
              /\ IF a.given
                 THEN /\ js'.trackedStateKeys = js.trackedStateKeys
                      /\ \A k \in Keys :
                            store'[k] = IF k \in {KAppState(x) : x \in a.keys}
                                        THEN Nil ELSE store[k]
                 ELSE /\ js'.trackedStateKeys = {}
                      /\ \A k \in Keys :
                            store'[k] = IF k \in {KAppState(x) : x \in hist.published}
                                        THEN Nil ELSE store[k]
                      /\ \A x \in PublishedKeys : store'[KAppState(x)] = Nil]_vars

\* After a full cleanup one key was published again while the other one, which
\* had been published before that cleanup, stays absent and untracked.
C16_OnlyLaterKeysTracked ==
    /\ js.module
    /\ hist.swept = {"timerRunning"}
    /\ hist.published = {"taskName"}
    /\ js.trackedStateKeys = {"taskName"}
    /\ store[KAppState("taskName")] # Nil
    /\ store[KAppState("timerRunning")] = Nil
    /\ js.listeners = << >>
    /\ js.subs # {}

\* C15: adding a function registers it once, the first remove of a
\* subscription unregisters its function, cleanup unregisters all, a remove
\* called again on a subscription changes nothing, and an invocation from
\* native calls exactly the functions registered at that moment, each once.
C15_RegisteredListenersCalled ==
    [][/\ \A l \in Listeners :
             AddEventListener(l) =>
                 /\ Range(js'.listeners) = Range(js.listeners) \cup {l}
                 /\ Len(js'.listeners) = Cardinality(Range(js'.listeners))
       /\ \A l \in Listeners :
             RemoveSubscription(l) =>
                 IF l \in hist.spent
                 THEN js'.listeners = js.listeners
                 ELSE Range(js'.listeners) = Range(js.listeners) \ {l}
       /\ \A a \in CleanupInputs : Cleanup(a) => js'.listeners = << >>
       /\ MainRun /\ callback => js'.fan.all = js.listeners
       /\ FanEnd => [j \in DOMAIN js.fan.called |-> js.fan.called[j][1]] = js.fan.all]_vars

\* The entry of a key of the strings.
EntryOf(strings, key) == strings[IndexOf(strings, key)].entry

\* C18: for every key in both the new strings and the existing catalog the
\* run sets the en entry to the new value and leaves every other language
\* entry of that key, and the rest of its entry, exactly as it was.
C18_OnlyEnglishOverwritten ==
    catalog.runs > 0 /\ catalog.prev.kind = "json" =>
        \A j \in DOMAIN catalog.last :
            LET key == catalog.last[j].key IN
            IndexOf(catalog.prev.strings, key) # 0
              /\ EntryOf(catalog.prev.strings, key).kind = "object" =>
                LET old == EntryOf(catalog.prev.strings, key)
                    new == EntryOf(catalog.file.strings, key) IN
                /\ IndexOf(catalog.file.strings, key) = IndexOf(catalog.prev.strings, key)
                /\ DOMAIN new.localizations = DOMAIN old.localizations \cup {"en"}
                /\ new.localizations["en"] = StringUnit("translated", catalog.last[j].value)
                /\ \A l \in DOMAIN old.localizations \ {"en"} :
                      new.localizations[l] = old.localizations[l]
                /\ new.extractionState = old.extractionState

\* A run replaced the English value of a key and kept its German one.
C18_TranslationKept ==
    /\ catalog.runs > 0
    /\ catalog.last = <<[key |-> "startTimer.title", value |-> "Go"]>>
    /\ IndexOf(catalog.prev.strings, "startTimer.title") # 0
    /\ EntryOf(catalog.prev.strings, "startTimer.title").localizations =
          [l \in Languages |-> IF l = "en" THEN StringUnit("needs_review", "Begin")
                               ELSE StringUnit("translated", "Anfang")]
    /\ EntryOf(catalog.file.strings, "startTimer.title").localizations =
          [l \in Languages |-> IF l = "en" THEN StringUnit("translated", "Go")
                               ELSE StringUnit("translated", "Anfang")]

\* C19: a run deletes no key: every key of the existing catalog is a key of
\* the output, and a key the new strings do not name keeps its whole entry;
\* this holds for every run of a succession of runs.
C19_NoKeyDeleted ==
    catalog.runs > 0 /\ catalog.prev.kind = "json" =>
        \A j \in DOMAIN catalog.prev.strings :
            LET key == catalog.prev.strings[j].key IN
            /\ IndexOf(catalog.file.strings, key) # 0
            /\ (\A i \in DOMAIN catalog.last : catalog.last[i].key # key) =>
                  EntryOf(catalog.file.strings, key) = catalog.prev.strings[j].entry

\* After two runs a key that the last run did not name is still there with
\* its translation.
C19_OldKeyKeptOverRuns ==
    /\ catalog.runs = 2
    /\ catalog.last = <<[key |-> "startTimer.title", value |-> "Start"]>>
    /\ IndexOf(catalog.prev.strings, "stopTimer.title") # 0
    /\ IndexOf(catalog.file.strings, "stopTimer.title") # 0
    /\ "de" \in DOMAIN EntryOf(catalog.file.strings, "stopTimer.title").localizations

\* C20: merging the new strings D into the result of merging D into a prior
\* catalog E (or into none) yields that result again.
C20_MergeIdempotent ==
    catalog.runs > 0 => mergeStringCatalog(catalog.last, catalog.file) = catalog.file

\* The run found a catalog with one key, updated it and added a second key.
C20_MergedIntoExisting ==
    /\ catalog.runs > 0
    /\ catalog.prev.kind = "json"
    /\ Len(catalog.prev.strings) = 1
    /\ Len(catalog.last) = 2
    /\ Len(catalog.file.strings) = 2

\* C21: when the existing catalog is absent or cannot be parsed the run does
\* not fail: its output is a catalog with sourceLanguage "en" and version
\* "1.0" whose strings are exactly the new strings, each with its en entry
\* only.
C21_StartsAfresh ==
    catalog.runs > 0 /\ catalog.prev.kind \in {"none", "garbage"} =>
        /\ catalog.file.kind = "json"
        /\ catalog.file.sourceLanguage = "en"
        /\ catalog.file.version = "1.0"
        /\ Len(catalog.file.strings) = Len(catalog.last)
        /\ \A j \in DOMAIN catalog.last :
              /\ catalog.file.strings[j].key = catalog.last[j].key
              /\ catalog.file.strings[j].entry.kind = "object"
              /\ catalog.file.strings[j].entry.hasLocalizations
              /\ DOMAIN catalog.file.strings[j].entry.localizations = {"en"}
              /\ catalog.file.strings[j].entry.localizations["en"].value =
                    catalog.last[j].value

\* A run found a text that is no JSON and wrote a catalog of two strings.
C21_GarbageReplaced ==
    /\ catalog.runs = 1
    /\ catalog.prev.kind = "garbage"
    /\ Len(catalog.last) = 2
    /\ Len(catalog.file.strings) = 2

\* The key of a line that matches the form: the text between its first
\* quotes.
KeyOfLine(line) == SubSeq(line, 2, QuotedEnd(line, 2) - 2)

\* C22: the output of mergeAppShortcutsStrings has no two lines with the
\* same key, whatever the new phrases and the existing text are, and a new
\* phrase gets its identity line only if no retained line has it as its key.
C22_OneLinePerKey ==
    cli.fn = "mergeAppShortcutsStrings" =>
        /\ \A i, j \in DOMAIN cli.out :
              i # j /\ MatchesEntry(cli.out[i]) /\ MatchesEntry(cli.out[j]) =>
                  KeyOfLine(cli.out[i]) # KeyOfLine(cli.out[j])
        /\ \A n \in DOMAIN cli.in :
              (\E j \in DOMAIN cli.old : /\ MatchesEntry(cli.old[j])
                                         /\ KeyOfLine(cli.old[j]) = cli.in[n]
                                         /\ cli.old[j] # PhraseEntry(cli.in[n]))
                  => \A j \in DOMAIN cli.out : cli.out[j] # PhraseEntry(cli.in[n])

\* C23: every existing line that matches the form is in the output exactly
\* as it was and once, every output line is such a line or the identity line
\* of a new phrase, and merging the same new phrases into the output gives
\* the output again.
C23_LinesKeptVerbatim ==
    cli.fn = "mergeAppShortcutsStrings" =>
        /\ \A j \in DOMAIN cli.old :
              MatchesEntry(cli.old[j]) =>
                  Cardinality({i \in DOMAIN cli.out : cli.out[i] = cli.old[j]}) = 1
        /\ \A i \in DOMAIN cli.out :
              \/ \E j \in DOMAIN cli.old : MatchesEntry(cli.old[j]) /\ cli.old[j] = cli.out[i]
              \/ \E n \in DOMAIN cli.in : cli.out[i] = PhraseEntry(cli.in[n])
        /\ mergeAppShortcutsStrings(cli.in, cli.out) = cli.out

\* C24: every phrase of a generated registration entry holds the
\* application-name token; a configured phrase without the token is emitted
\* with " in " and the token appended, and a phrase that has the token is
\* emitted as it is.
C24_PhrasesHoldToken ==
    cli.fn = "generateAppShortcut" =>
        \A i \in DOMAIN cli.in :
            /\ Includes(cli.out[i], ApplicationNameToken)
            /\ IF Includes(cli.in[i], ApplicationNameToken)
               THEN cli.out[i] = cli.in[i]
               ELSE cli.out[i] = escapeForSwift(cli.in[i]) \o <<" ", "in", " ">>
                                  \o ApplicationNameToken

\* The ${identifier} occurrences of a template: first and last position.
Occurrences(str) ==
    {o \in (DOMAIN str) \X (DOMAIN str) :
        /\ o[1] + 2 < o[2]
        /\ str[o[1]] = "$"
        /\ str[o[1] + 1] = "{"
        /\ str[o[2]] = "}"
        /\ \A k \in (o[1] + 2)..(o[2] - 1) : WordChar(str[k])}

\* C25: extractVariables returns the names of all ${identifier} occurrences
\* of the template in order of occurrence, one entry per occurrence, and the
\* empty list when the template has none.
C25_NamesInOrder ==
    cli.fn = "extractVariables" =>
        LET occ == Occurrences(cli.in) IN
        /\ Len(cli.out) = Cardinality(occ)
        /\ \A o \in occ :
               cli.out[Cardinality({q \in occ : q[1] <= o[1]})]
                   = SubSeq(cli.in, o[1] + 2, o[2] - 1)

\* C25 witness: a template with the same name twice and another one between.
C25_NameTwice ==
    /\ cli.fn = "extractVariables"
    /\ Len(cli.out) = 2
    /\ cli.out[1] = cli.out[2]

\* The words of a text put together, the first letter of each in upper case.
RECURSIVE WordsCapitalized(_, _)
WordsCapitalized(str, first) ==
    IF str = << >> THEN << >>
    ELSE IF Separator(Head(str)) THEN WordsCapitalized(Tail(str), TRUE)
    ELSE <<IF first THEN ToUpperCase(Head(str)) ELSE Head(str)>>
             \o WordsCapitalized(Tail(str), FALSE)

\* C26: pascalCase returns the words of the text (separated by hyphens,
\* underscores or whitespace) put together, each with its first letter in
\* upper case; a run of separators counts as one, no separator is left, and
\* the empty text gives the empty text.
C26_WordsJoined ==
    cli.fn = "pascalCase" =>
        /\ cli.out = WordsCapitalized(cli.in, TRUE)
        /\ \A i \in DOMAIN cli.out : ~Separator(cli.out[i])
        /\ cli.in = << >> => cli.out = << >>

\* C26 witness: two words with a run of two separators between them.
C26_RunOfSeparators ==
    /\ cli.fn = "pascalCase"
    /\ cli.in = <<"a", "-", "_", "b">>
    /\ cli.out = <<"A", "B">>

\* The configuration file the mode looks for is missing.
ConfigMissing(env) == IF env.mode = "library" THEN ~env.js ELSE ~env.ts /\ ~env.js

\* A configuration error, or a missing target directory.
FatalInput(env) ==
    \/ ConfigMissing(env)
    \/ env.mode # "library" /\ env.ts /\ ~env.tsNode
    \/ ~env.loads
    \/ ~env.shortcuts
    \/ env.dir # "ok"

\* C27 as stated: a configuration error or a missing target directory makes
\* the run exit with code 1 and write no generated artifact, and no artifact
\* is written before the Swift source text is assembled.
C27_FatalExitsOne ==
    cli.fn = "main" =>
        /\ FatalInput(cli.in) => cli.out.written \cap Artifacts = {}
        /\ FatalInput(cli.in) /\ cli.out.pc = "exit" => cli.out.code = 1
        /\ cli.out.written \cap Artifacts # {} => cli.out.assembled

\* C27, amended: as above, except that a run in consumer mode that finds no
\* configuration file writes a template configuration and exits with code 0,
\* still without any generated artifact.
C27_FatalOrTemplate ==
    cli.fn = "main" =>
        /\ FatalInput(cli.in) => cli.out.written \cap Artifacts = {}
        /\ FatalInput(cli.in) /\ cli.out.pc = "exit" =>
               IF cli.in.mode = "consumer" /\ ConfigMissing(cli.in)
               THEN cli.out.code = 0 /\ cli.out.written = {Template}
               ELSE cli.out.code = 1 /\ cli.out.written = {}
        /\ cli.out.written \cap Artifacts # {} => cli.out.assembled

\* C27 witness: a run whose configuration loads but whose app directory is
\* missing has exited with code 1.
C27_MissingDirectoryExit ==
    /\ cli.fn = "main"
    /\ cli.in.mode = "consumer"
    /\ ~cli.in.ts /\ cli.in.js /\ cli.in.loads /\ cli.in.shortcuts
    /\ cli.in.dir = "noApp"
    /\ cli.out.pc = "exit"
    /\ cli.out.code = 1

\* C28: an invocation that showed the message of a message-only state dialog
\* goes on to React Native: it does not end without having published its
\* command, and its result is not the message alone.
C28_MessageThenCommand ==
    \A i \in Intents : intent[i].shown # Nil /\ intent[i].pc = "done" =>
        /\ ~NothingPublished(i)
        /\ intent[i].posted

\* The keys of the parameters invocation i has a value for: the value key,
\* and the type key of a date or boolean parameter.
ParameterKeysOf(i) ==
    LET ps == Config[intent[i].sc].parameters IN
    UNION {{KParam(ps[j].name)} \cup
           (IF ps[j].type \in {"date", "boolean"} THEN {KParamType(ps[j].name)} ELSE {}) :
           j \in {n \in DOMAIN ps : intent[i].params[ps[n].name] # Nil}}

KeysOfCommand ==
    {KPending, KNonce, KTimestamp}
        \cup {KParam(p) : p \in ParamNames} \cup {KParamType(p) : p \in ParamNames}

\* C30: the step by which an intent gives up at its timeout leaves the keys
\* of its command as they are, and the intent takes no step afterwards: only
\* a scan of the application changes these keys later, by consuming the
\* command, which is then still dispatched to the listeners.
C30_TimeoutLeavesCommand ==
    [][\A i \in Intents :
          /\ intent[i].out.kind # "timeout" /\ intent'[i].out.kind = "timeout" =>
                \A k \in KeysOfCommand : store'[k] = store[k]
          /\ intent[i].out.kind = "timeout" =>
                /\ intent'[i] = intent[i]
                /\ \A k \in KeysOfCommand :
                      store'[k] # store[k] =>
                          /\ store'[k] = Nil
                          /\ \E t \in Threads : scan'[t] # scan[t]]_vars

\* C30 witness: the first invocation gave up at its timeout, and afterwards a scan
\* consumed its command and the listeners were invoked with it.
C30_DispatchedAfterTimeout ==
    /\ intent[1].out.kind = "timeout"
    /\ NonceOf(1) \in hist.tardy
    /\ hist.delivered[NonceOf(1)] = 1
    /\ store[KPending] = Nil

\* Nonce n is nowhere on its way to a listener: no scan holds it, no block of
\* the main queue carries it, no fan-out runs with it, and nothing was
\* delivered or answered under it.
Undelivered(n) ==
    /\ \A t \in Threads : scan[t].nonce # Str(n)
    /\ \A j \in DOMAIN mainQueue : mainQueue[j].nonce # n
    /\ ~(js.fan.active /\ js.fan.data.nonce = n)
    /\ hist.delivered[n] = 0
    /\ store[KResponse(n)] = Nil

\* The first invocation published its command, and the second one wrote its
\* identifier and its nonce over it before any scan had read the first nonce.
FirstOverwritten ==
    /\ intent[1].pc = "post" \/ intent[1].posted
    /\ intent[1].got = Nil
    /\ hist.writer[KPending] = 2
    /\ hist.writer[KNonce] = 2
    /\ Undelivered(NonceOf(1))

\* C31: the store holds one pending-command slot: once the second invocation
\* has overwritten the unread command of the first, the first command stays
\* undelivered in every later state, and its intent does not end with a
\* response but with the timeout reply.
C31_OverwrittenNeverDelivered ==
    /\ [](FirstOverwritten =>
             /\ intent[1].out.kind # "response"
             /\ intent[1].pc = "done" => intent[1].out.kind = "timeout")
    /\ [][FirstOverwritten => FirstOverwritten']_vars

\* C31 witness: the first command was overwritten unread, its intent returned
\* the timeout reply, and the second command reached the listener.
C31_FirstTimedOutSecondDelivered ==
    /\ FirstOverwritten
    /\ intent[1].out = [kind |-> "timeout", msg |-> Str(TimeoutMessage)]
    /\ hist.delivered[NonceOf(2)] = 1

\* The text a stored value stands for: a string its text, a number its text
\* form; Nil for an absent key.
TextOfValue(x) ==
    CASE x.t = "string" -> x.v
      [] x.t = "number" -> <<Word(ToString(x.v))>>
      [] OTHER -> Nil

\* C32: in the message of a state dialog every placeholder ${v} is replaced
\* by the value of appState_<v> (the stored text, or the text form of the
\* stored number) and is left in place when the key is absent; the rest of
\* the message is as configured.
C32_PlaceholdersReplaced ==
    cli.fn = "interpolate" =>
        cli.out = Flatten([j \in DOMAIN cli.in |->
                              IF cli.in[j][1] = "$"
                                 /\ TextOfValue(cli.old[KAppState(cli.in[j][2])]) # Nil
                              THEN TextOfValue(cli.old[KAppState(cli.in[j][2])])
                              ELSE <<cli.in[j]>>])

\* C33: a respond call without a message writes the empty string under
\* Response_<nonce>; an intent that polls while the empty string is there
\* takes it as its response: it deletes the key and returns the empty message.
C33_SilentResponseReturned ==
    [][/\ (js.fan.active /\ js.fan.todo # << >>
           /\ js'.fan.called = Append(js.fan.called, <<Head(js.fan.todo), "silent">>)) =>
              store'[KResponse(js.fan.data.nonce)] = Str("")
       /\ \A i \in Intents :
             LET me == intent[i]
                 to == intent'[i]
                 k == KResponse(NonceOf(i)) IN
             /\ (me.pc = "poll" /\ LoopContinues(me.elapsed) /\ store[k] = Str("")
                 /\ to # me) =>
                   to.pc = "remove" /\ to.got = Str("")
             /\ (me.pc = "remove" /\ me.got = Str("") /\ to # me) =>
                   /\ store'[k] = Nil
                   /\ to.pc = "done"
                   /\ to.out = [kind |-> "response", msg |-> Str("")]]_vars

\* C33 witness: the listener answered without a message and the intent
\* returned the empty message, the key being deleted.
C33_EmptyMessageReturned ==
    /\ \E j \in DOMAIN js.fan.called : js.fan.called[j][2] = "silent"
    /\ intent[1].out = [kind |-> "response", msg |-> Str("")]
    /\ store[KResponse(NonceOf(1))] = Nil


\* The parameter map invocation i publishes: the parameters its shortcut
\* declares and that have a value, each as the variant of its declared type.
WrittenParameters(i) ==
    LET ps == Config[intent[i].sc].parameters IN
    [p \in ParamNames |->
        IF \E j \in DOMAIN ps : ps[j].name = p
        THEN Variant(intent[i].params[p])
        ELSE Variant(Nil)]

\* C34: the parameter map handed to the callback with nonce N holds exactly
\* the parameters the invocation that generated N wrote, with their types:
\* nothing an earlier or a concurrent invocation left in the store.
C34_ParametersOfTheNonce ==
    \A k \in DOMAIN mainQueue :
        \A i \in Intents :
            mainQueue[k].nonce = NonceOf(i) =>
                mainQueue[k].parameters = WrittenParameters(i)


\* C35: the identifier and the nonce of one delivery were written by the same
\* invocation: the identifier handed over with nonce N is the identifier of
\* the shortcut whose invocation generated N.
C35_IdentifierOfTheNonce ==
    \A k \in DOMAIN mainQueue :
        \A i \in Intents :
            mainQueue[k].nonce = NonceOf(i) =>
                mainQueue[k].identifier = Config[intent[i].sc].identifier


\* The command the data was read from is no longer in the store: the scan
\* that read it has removed it.
Consumed(data) == store[KNonce] # Str(data.nonce)

\* C36: a command is removed from the store only when it is handed to a
\* listener: when the block of invokeShortcut runs for a command its scan has
\* removed, the native callback is set and the listener set is not empty.
C36_ConsumedOnlyWhenHandedOver ==
    [][(mainQueue # << >> /\ mainQueue' = Tail(mainQueue) /\ Consumed(Head(mainQueue))) =>
          callback /\ js.listeners # << >>]_vars


\* C37: on iOS, between two calls of the manager, nativeCallbackRegistered is
\* true exactly when at least one listener is registered, whatever sequence
\* of addEventListener, remove (stale and repeated ones too) and cleanup
\* calls came before.
C37_FlagTracksListeners ==
    (GetNativeModule(js) /\ JsIdle) =>
        (js.nativeCallbackRegistered <=> js.listeners # << >>)

\* C37 witness: every subscription has been removed at least once, a listener
\* was added again, and the flag is up with the listener registered.
C37_RegisteredAfterRemoves ==
    /\ GetNativeModule(js) /\ JsIdle
    /\ hist.spent = Listeners
    /\ js.listeners # << >>
    /\ js.nativeCallbackRegistered


\* C38: once the intent of nonce N has taken its response and deleted
\* Response_<N>, the key is absent in every later state: no later respond
\* call of another listener, or of a listener that answers late, writes it
\* again.
C38_ConsumedResponseStaysAbsent ==
    \A i \in Intents :
        intent[i].out.kind = "response" => store[KResponse(NonceOf(i))] = Nil


\* C39: a state dialog triggers (asks for confirmation or shows its message)
\* only while the store holds, under its state key, the value updateAppState
\* writes for showWhen: never while the key is absent, be it never published
\* or cleared.
C39_TriggersOnPublishedValue ==
    [][\A i \in Intents :
          LET me == intent[i] IN
          (me.pc = "dialogs"
           /\ (intent'[i].confirms > me.confirms \/ intent'[i].shown # me.shown)) =>
              LET d == Config[me.sc].stateDialogs[me.idx]
                  k == KAppState(d.stateKey) IN
              /\ store[k] # Nil
              /\ store[k] = AppStateWrite(store, d.stateKey, d.showWhen)[k]]_vars

=============================================================================
